---- MODULE Spec2Model ----
(***************************************************************************)
(* A model of the dispatcher package (src/dispatcher.go): the Router, its  *)
(* registration methods, the dispatch loop ServeHTTP, and the route        *)
(* compiler NewRoute.                                                      *)
(*                                                                         *)
(* Go strings are modelled as sequences of one-character strings, so that  *)
(* the string operations of the source (replace, find, upper-casing) are   *)
(* computed character by character as the source computes them.            *)
(***************************************************************************)
EXTENDS Integers, Sequences, FiniteSets, TLC

(***************************************************************************)
(* Characters and strings                                                  *)
(***************************************************************************)

LowerLetters ==
    <<"a","b","c","d","e","f","g","h","i","j","k","l","m",
      "n","o","p","q","r","s","t","u","v","w","x","y","z">>

UpperLetters ==
    <<"A","B","C","D","E","F","G","H","I","J","K","L","M",
      "N","O","P","Q","R","S","T","U","V","W","X","Y","Z">>

Digits ==
    {"0","1","2","3","4","5","6","7","8","9"}

SeqRange(s) ==
    {s[i] : i \in 1..Len(s)}

\* The characters the matcher syntax \w stands for.
WordChars ==
    SeqRange(LowerLetters) \cup SeqRange(UpperLetters) \cup Digits \cup {"_"}

\* Punctuation that may be escaped with a backslash in matcher syntax.
PunctChars ==
    {"/", ".", ":", "(", ")", "?", "*", "+", "[", "]", "^", "$", "\\", "|", "-"}

\* s[i..] starts with pat.
HasPrefixAt(s, i, pat) ==
    /\ i + Len(pat) - 1 <= Len(s)
    /\ \A k \in 1..Len(pat) : s[i + k - 1] = pat[k]

\* strings.Replace(s, old, new, -1) and Regexp.ReplaceAllString for a literal
\* pattern: every non-overlapping occurrence of old, scanning left to right.
RECURSIVE ReplaceFrom(_, _, _, _)
ReplaceFrom(s, i, old, new) ==
    IF i > Len(s) THEN <<>>
    ELSE IF Len(old) > 0 /\ HasPrefixAt(s, i, old)
         THEN new \o ReplaceFrom(s, i + Len(old), old, new)
         ELSE <<s[i]>> \o ReplaceFrom(s, i + 1, old, new)

ReplaceAll(s, old, new) ==
    ReplaceFrom(s, 1, old, new)

\* unicode.ToUpper on one character.
UpperChar(c) ==
    IF \E k \in 1..Len(LowerLetters) : LowerLetters[k] = c
    THEN UpperLetters[CHOOSE k \in 1..Len(LowerLetters) : LowerLetters[k] = c]
    ELSE c

\* strings.ToUpper.
ToUpper(s) ==
    [i \in 1..Len(s) |-> UpperChar(s[i])]

(***************************************************************************)
(* The package's regular expressions (dispatcher.go:130-135)               *)
(***************************************************************************)

\* replaceCaptureParams = `\/\(` replaced by `(?:/`.
replaceCaptureParams(s) ==
    ReplaceAll(s, <<"/", "(">>, <<"(", "?", ":", "/">>)

\* replaceSlashes = `([\/.])` replaced by `\$1`: a backslash before every
\* "/" and every ".".
RECURSIVE replaceSlashes(_)
replaceSlashes(s) ==
    IF s = <<>> THEN <<>>
    ELSE IF Head(s) \in {"/", "."}
         THEN <<"\\", Head(s)>> \o replaceSlashes(Tail(s))
         ELSE <<Head(s)>> \o replaceSlashes(Tail(s))

\* replaceWildcards = `\*` replaced by `(.*)`.
replaceWildcards(s) ==
    ReplaceAll(s, <<"*">>, <<"(", ".", "*", ")">>)

\* The end of the maximal run of word characters of s starting at i
\* (the position after the run).
RECURSIVE WordRunEnd(_, _)
WordRunEnd(s, i) ==
    IF i <= Len(s) /\ s[i] \in WordChars THEN WordRunEnd(s, i + 1) ELSE i

\* The position of the first ")" of s at or after i, or 0.
RECURSIVE FirstClose(_, _)
FirstClose(s, i) ==
    IF i > Len(s) THEN 0
    ELSE IF s[i] = ")" THEN i
    ELSE FirstClose(s, i + 1)

Slice(s, from, to) ==
    IF from > to THEN <<>> ELSE SubSeq(s, from, to)

\* One match of splitRoutePathParams = `(\/)?(\.)?:(\w+)(?:(\(.*?\)))?(\?)?`
\* anchored at position i of s; ok is FALSE when there is none. The optional
\* groups are greedy and every later group is optional, so the first
\* alternative the matcher tries at i is the one it keeps.
MatchParamAt(s, i) ==
    LET hasSlash == i <= Len(s) /\ s[i] = "/"
        j1       == IF hasSlash THEN i + 1 ELSE i
        hasDot   == j1 <= Len(s) /\ s[j1] = "."
        j2       == IF hasDot THEN j1 + 1 ELSE j1
        hasColon == j2 <= Len(s) /\ s[j2] = ":"
        j3       == j2 + 1
        j4       == WordRunEnd(s, j3)
        close    == IF j4 <= Len(s) /\ s[j4] = "(" THEN FirstClose(s, j4 + 1) ELSE 0
        j5       == IF close > 0 THEN close + 1 ELSE j4
        hasOpt   == j5 <= Len(s) /\ s[j5] = "?"
        j6       == IF hasOpt THEN j5 + 1 ELSE j5
    IN  IF hasColon /\ j4 > j3
        THEN [ok |-> TRUE, end |-> j6,
              parameter |-> << Slice(s, i, j6 - 1),
                               IF hasSlash THEN <<"/">> ELSE <<>>,
                               IF hasDot THEN <<".">> ELSE <<>>,
                               Slice(s, j3, j4 - 1),
                               IF close > 0 THEN Slice(s, j4, close) ELSE <<>>,
                               IF hasOpt THEN <<"?">> ELSE <<>> >>]
        ELSE [ok |-> FALSE, end |-> i, parameter |-> <<>>]

\* splitRoutePathParams.FindAllStringSubmatch(path, -1): the leftmost matches,
\* left to right, none overlapping.
RECURSIVE FindAllFrom(_, _)
FindAllFrom(s, i) ==
    IF i > Len(s) THEN <<>>
    ELSE LET m == MatchParamAt(s, i)
         IN  IF m.ok THEN <<m.parameter>> \o FindAllFrom(s, m.end)
             ELSE FindAllFrom(s, i + 1)

splitRoutePathParams(path) ==
    FindAllFrom(path, 1)

\* generateFragmentedPathParameter.
generateFragmentedPathParameter(parameter) ==
    [definition |-> parameter[1],
     slash      |-> parameter[2],
     format     |-> parameter[3],
     name       |-> parameter[4],
     capture    |-> parameter[5],
     optional   |-> parameter[6]]

\* The sub-expression NewRoute synthesizes for one fragment
\* (the loop body, dispatcher.go:440-468).
Formatted(fragmented) ==
    LET f1 == IF Len(fragmented.optional) = 0 THEN fragmented.slash ELSE <<>>
        f2 == f1 \o <<"(", "?", ":">>
        f3 == IF Len(fragmented.optional) > 0 THEN f2 \o fragmented.slash ELSE f2
        f4 == IF Len(fragmented.format) > 0 THEN f3 \o fragmented.format ELSE f3
        f5 == IF Len(fragmented.capture) > 0
              THEN f4 \o fragmented.capture
              ELSE IF Len(fragmented.format) > 0
                   THEN f4 \o <<"(", "[", "^", "/", ".", "]", "+", "?", ")">>
                   ELSE f4 \o <<"(", "[", "^", "/", "]", "+", "?", ")">>
        f6 == f5 \o <<")">>
    IN  IF Len(fragmented.optional) > 0 THEN f6 \o fragmented.optional ELSE f6

\* The substitution pass of NewRoute over the fragments, in order: each
\* replaces every occurrence of its definition in the in-progress string.
RECURSIVE SubstituteParams(_, _, _)
SubstituteParams(compiled, parameters, k) ==
    IF k > Len(parameters) THEN compiled
    ELSE LET fragmented == generateFragmentedPathParameter(parameters[k])
         IN  SubstituteParams(
                 ReplaceAll(compiled, fragmented.definition, Formatted(fragmented)),
                 parameters, k + 1)

\* A faulty NewRoute: it appends the optional trailing slash whatever the
\* strict flag is.
CompiledSourceLoose(path, strict) ==
    LET c0 == replaceCaptureParams(path)
        parameters == splitRoutePathParams(path)
        c1 == c0 \o <<"/", "?">>
        c2 == SubstituteParams(c1, parameters, 1)
        c3 == replaceSlashes(c2)
        c4 == replaceWildcards(c3)
    IN  <<"^">> \o c4 \o <<"$">>

\* The source text of the matcher NewRoute hands to regexp.MustCompile.
CompiledSource(path, strict) ==
    LET c0 == replaceCaptureParams(path)
        parameters == splitRoutePathParams(path)
        c1 == IF ~strict THEN c0 \o <<"/", "?">> ELSE c0
        c2 == SubstituteParams(c1, parameters, 1)
        c3 == replaceSlashes(c2)
        c4 == replaceWildcards(c3)
    IN  <<"^">> \o c4 \o <<"$">>

\* route.keys: the fragment names in order of appearance.
RouteKeys(path) ==
    LET parameters == splitRoutePathParams(path)
    IN  [k \in 1..Len(parameters) |-> generateFragmentedPathParameter(parameters[k]).name]

(***************************************************************************)
(* The regexp library, as far as NewRoute uses it: regexp.MustCompile      *)
(* (dispatcher.go:476) and Regexp.MatchString (dispatcher.go:355).         *)
(* The syntax covered: literals, ".", "^", "$", backslash escapes of       *)
(* punctuation, \d \w \s (and \D \W \S), bracket classes with ranges,      *)
(* groups "(" and "(?:", alternation, and the repetitions * + ? with an    *)
(* optional lazy "?". Whether a string is accepted does not depend on      *)
(* laziness. A syntax error makes MustCompile panic.                       *)
(***************************************************************************)

Node(t, c, set, neg, subs) ==
    [t |-> t, c |-> c, set |-> set, neg |-> neg, subs |-> subs]

ErrNode ==
    Node("err", "", {}, FALSE, <<>>)

Parsed(ok, node, pos) ==
    [ok |-> ok, node |-> node, pos |-> pos]

ParseError ==
    Parsed(FALSE, ErrNode, 0)

RepeatOps ==
    {"*", "+", "?"}

\* The order of characters inside a bracket range such as [0-9] or [a-z].
CharOrder ==
    <<"0","1","2","3","4","5","6","7","8","9">> \o UpperLetters \o <<"_">> \o LowerLetters

CharIndex(c) ==
    IF \E k \in 1..Len(CharOrder) : CharOrder[k] = c
    THEN CHOOSE k \in 1..Len(CharOrder) : CharOrder[k] = c
    ELSE 0

CharRange(lo, hi) ==
    IF CharIndex(lo) = 0 \/ CharIndex(hi) = 0 THEN {lo, hi}
    ELSE {CharOrder[k] : k \in CharIndex(lo)..CharIndex(hi)}

\* The characters \s stands for.
SpaceChars ==
    {" ", "\t", "\n", "\f", "\r"}

\* The class a backslash escape stands for: [ok, set, neg].
EscapeClass(c) ==
    CASE c \in PunctChars -> [ok |-> TRUE, set |-> {c}, neg |-> FALSE]
      [] c = "d" -> [ok |-> TRUE, set |-> Digits, neg |-> FALSE]
      [] c = "D" -> [ok |-> TRUE, set |-> Digits, neg |-> TRUE]
      [] c = "w" -> [ok |-> TRUE, set |-> WordChars, neg |-> FALSE]
      [] c = "W" -> [ok |-> TRUE, set |-> WordChars, neg |-> TRUE]
      [] c = "s" -> [ok |-> TRUE, set |-> SpaceChars, neg |-> FALSE]
      [] c = "S" -> [ok |-> TRUE, set |-> SpaceChars, neg |-> TRUE]
      [] OTHER -> [ok |-> FALSE, set |-> {}, neg |-> FALSE]

\* The items of a bracket class from position i up to its closing "]";
\* first is TRUE at the first item, where "]" is a literal.
RECURSIVE ParseClassItems(_, _, _, _)
ParseClassItems(re, i, first, acc) ==
    IF i > Len(re) THEN [ok |-> FALSE, set |-> {}, pos |-> 0]
    ELSE IF re[i] = "]" /\ ~first THEN [ok |-> TRUE, set |-> acc, pos |-> i + 1]
    ELSE IF re[i] = "\\"
         THEN IF i + 1 > Len(re) THEN [ok |-> FALSE, set |-> {}, pos |-> 0]
              ELSE LET e == EscapeClass(re[i + 1])
                   IN  IF ~e.ok \/ e.neg THEN [ok |-> FALSE, set |-> {}, pos |-> 0]
                       ELSE ParseClassItems(re, i + 2, FALSE, acc \cup e.set)
    ELSE IF i + 2 <= Len(re) /\ re[i + 1] = "-" /\ re[i + 2] # "]"
         THEN ParseClassItems(re, i + 3, FALSE, acc \cup CharRange(re[i], re[i + 2]))
         ELSE ParseClassItems(re, i + 1, FALSE, acc \cup {re[i]})

ParseClass(re, i) ==
    LET neg   == i <= Len(re) /\ re[i] = "^"
        items == ParseClassItems(re, IF neg THEN i + 1 ELSE i, TRUE, {})
    IN  IF items.ok
        THEN Parsed(TRUE, Node("class", "", items.set, neg, <<>>), items.pos)
        ELSE ParseError

RECURSIVE ParseAlt(_, _, _)
RECURSIVE ParseConcat(_, _, _)
RECURSIVE ParseRepeat(_, _)
RECURSIVE ParseAtom(_, _)
RECURSIVE ConcatNext(_, _, _)
RECURSIVE AltNext(_, _, _)

\* A group whose body has been parsed: the closing ")" must follow.
CloseGroup(re, body) ==
    IF body.ok /\ body.pos <= Len(re) /\ re[body.pos] = ")"
    THEN Parsed(TRUE, body.node, body.pos + 1)
    ELSE ParseError

\* One atom at position i.
ParseAtom(re, i) ==
    IF i > Len(re) THEN ParseError
    ELSE CASE re[i] = "(" ->
                IF HasPrefixAt(re, i + 1, <<"?", ":">>)
                THEN CloseGroup(re, ParseAlt(re, i + 3, <<>>))
                ELSE IF i + 1 <= Len(re) /\ re[i + 1] = "?" THEN ParseError
                ELSE CloseGroup(re, ParseAlt(re, i + 1, <<>>))
           [] re[i] = "[" -> ParseClass(re, i + 1)
           [] re[i] = "." -> Parsed(TRUE, Node("any", "", {}, FALSE, <<>>), i + 1)
           [] re[i] = "^" -> Parsed(TRUE, Node("bol", "", {}, FALSE, <<>>), i + 1)
           [] re[i] = "$" -> Parsed(TRUE, Node("eol", "", {}, FALSE, <<>>), i + 1)
           [] re[i] = "\\" ->
                IF i + 1 > Len(re) THEN ParseError
                ELSE LET e == EscapeClass(re[i + 1])
                     IN  IF e.ok
                         THEN Parsed(TRUE, Node("class", "", e.set, e.neg, <<>>), i + 2)
                         ELSE ParseError
           [] re[i] \in RepeatOps -> ParseError
           [] OTHER -> Parsed(TRUE, Node("lit", re[i], {}, FALSE, <<>>), i + 1)

\* A parsed atom a with at most one repetition operator behind it (a second
\* one is an error).
Repeated(re, a) ==
    IF ~a.ok THEN ParseError
    ELSE IF a.pos <= Len(re) /\ re[a.pos] \in RepeatOps
         THEN LET op   == re[a.pos]
                  lazy == a.pos + 1 <= Len(re) /\ re[a.pos + 1] = "?"
                  next == IF lazy THEN a.pos + 2 ELSE a.pos + 1
                  kind == CASE op = "*" -> "star" [] op = "+" -> "plus" [] OTHER -> "opt"
              IN  IF next <= Len(re) /\ re[next] \in RepeatOps THEN ParseError
                  ELSE Parsed(TRUE, Node(kind, "", {}, FALSE, <<a.node>>), next)
         ELSE a

ParseRepeat(re, i) ==
    Repeated(re, ParseAtom(re, i))

\* A concatenation: repeats up to the end, a "|" or a ")".
ParseConcat(re, i, acc) ==
    IF i > Len(re) \/ re[i] \in {"|", ")"}
    THEN Parsed(TRUE, Node("cat", "", {}, FALSE, acc), i)
    ELSE ConcatNext(re, acc, ParseRepeat(re, i))

ConcatNext(re, acc, r) ==
    IF r.ok THEN ParseConcat(re, r.pos, Append(acc, r.node)) ELSE ParseError

\* An alternation of concatenations.
ParseAlt(re, i, acc) ==
    AltNext(re, acc, ParseConcat(re, i, <<>>))

AltNext(re, acc, c) ==
    IF ~c.ok THEN ParseError
    ELSE IF c.pos <= Len(re) /\ re[c.pos] = "|"
         THEN ParseAlt(re, c.pos + 1, Append(acc, c.node))
         ELSE Parsed(TRUE, Node("alt", "", {}, FALSE, Append(acc, c.node)), c.pos)

\* regexp.Compile: ok is FALSE on a syntax error (an unmatched ")" included).
Compile(re) ==
    LET p == ParseAlt(re, 1, <<>>)
    IN  IF p.ok /\ p.pos = Len(re) + 1 THEN p ELSE ParseError

RECURSIVE Ends(_, _, _)
RECURSIVE EndsSeq(_, _, _, _)
RECURSIVE Closure(_, _, _, _)

\* The positions at which a match of node n that starts at position i of s
\* can end. NewRoute sets no flag: "." accepts every character but the
\* newline, while a negated class accepts the newline too.
Ends(n, s, i) ==
    CASE n.t = "lit"   -> IF i <= Len(s) /\ s[i] = n.c THEN {i + 1} ELSE {}
      [] n.t = "any"   -> IF i <= Len(s) /\ s[i] # "\n" THEN {i + 1} ELSE {}
      [] n.t = "class" -> IF i <= Len(s) /\ ((s[i] \in n.set) # n.neg) THEN {i + 1} ELSE {}
      [] n.t = "bol"   -> IF i = 1 THEN {i} ELSE {}
      [] n.t = "eol"   -> IF i = Len(s) + 1 THEN {i} ELSE {}
      [] n.t = "cat"   -> EndsSeq(n.subs, 1, s, {i})
      [] n.t = "alt"   -> UNION {Ends(n.subs[k], s, i) : k \in 1..Len(n.subs)}
      [] n.t = "opt"   -> {i} \cup Ends(n.subs[1], s, i)
      [] n.t = "star"  -> Closure(n.subs[1], s, {i}, {i})
      [] n.t = "plus"  -> LET first == Ends(n.subs[1], s, i)
                          IN  Closure(n.subs[1], s, first, first)
      [] OTHER -> {}

EndsSeq(subs, k, s, from) ==
    IF k > Len(subs) \/ from = {} THEN from
    ELSE EndsSeq(subs, k + 1, s, UNION {Ends(subs[k], s, i) : i \in from})

Closure(n, s, frontier, acc) ==
    LET next == UNION {Ends(n, s, i) : i \in frontier} \ acc
    IN  IF next = {} THEN acc ELSE Closure(n, s, next, acc \cup next)

\* Regexp.MatchString on a matcher with the given source: some substring of
\* s matches (the anchors of the source make that the whole of s).
MatchString(matcher, s) ==
    LET prog == Compile(matcher)
    IN  prog.ok /\ \E i \in 1..(Len(s) + 1) : Ends(prog.node, s, i) # {}

(***************************************************************************)
(* NewRoute (dispatcher.go:426-479)                                        *)
(***************************************************************************)

\* Whether regexp.MustCompile panics on the matcher NewRoute builds.
NewRoutePanics(path, strict) ==
    ~Compile(CompiledSource(path, strict)).ok

\* The Route NewRoute returns. A Regexp is determined by its source text,
\* which stands for the compiled matcher.
NewRoute(path, strict) ==
    [path    |-> path,
     keys    |-> RouteKeys(path),
     matcher |-> CompiledSource(path, strict)]

(***************************************************************************)
(* The Router (dispatcher.go:137-185, 397-419)                             *)
(***************************************************************************)

GET ==
    <<"G", "E", "T">>

PUT ==
    <<"P", "U", "T">>

POST ==
    <<"P", "O", "S", "T">>

DELETE ==
    <<"D", "E", "L", "E", "T", "E">>

OPTIONS ==
    <<"O", "P", "T", "I", "O", "N", "S">>

HEAD ==
    <<"H", "E", "A", "D">>

TRACE ==
    <<"T", "R", "A", "C", "E">>

CONNECT ==
    <<"C", "O", "N", "N", "E", "C", "T">>

PATCH ==
    <<"P", "A", "T", "C", "H">>

httpMethods ==
    <<GET, PUT, POST, DELETE, OPTIONS, HEAD, TRACE, CONNECT, PATCH>>

\* A nil http.Handler, and the handler http.NotFoundHandler() returns.
NilHandler ==
    "nil"

DefaultNotFound ==
    "http.NotFoundHandler"

\* A nil *Route. NewRoute never returns a Route with an empty matcher source.
NilRoute ==
    [path |-> <<>>, keys |-> <<>>, matcher |-> <<>>]

\* NewDispatcher: an empty bucket for every supported method. A bucket is a
\* Go map keyed by Route pointer; it is kept here as the sequence of its
\* (route, handler) entries in the order they were inserted. The order is
\* not visible to the program: a range over the map visits the entries in
\* any order.
NewDispatcher ==
    [method \in SeqRange(httpMethods) |-> <<>>]

(***************************************************************************)
(* The environment: the goroutines that call the Router, and the           *)
(* arguments they pass.                                                    *)
(***************************************************************************)

\* No goroutine: the value of an unlocked mutex.
NoProc ==
    "none"

\* The goroutines that call the Router.
Procs ==
    {"main", "conn"}

\* "/a" and "/:x": two templates that both accept "/a".
TemplateA ==
    <<"/", "a">>

TemplateX ==
    <<"/", ":", "x">>

Templates ==
    {TemplateA, TemplateX}

\* The handlers passed to AddHandler and Match: every call passes a handler
\* of its own, the k-th call the k-th of these.
Handlers ==
    <<"h1", "h2", "h3", "h4">>

FallbackHandlers ==
    {"nf1"}

\* The middleware passed to RegisterMiddleware: the k-th of these when the
\* Router has k - 1 already.
Middlewares ==
    <<"mwA", "mwB", "mwC", "mwD">>

\* A lower-case spelling of GET, and a method that is not supported.
LowerGet ==
    <<"g", "e", "t">>

Brew ==
    <<"B", "R", "E", "W">>

\* The methods passed to AddHandler.
RegMethods ==
    {GET, PUT}

\* Requests: the method and path of an incoming request.
ReqMethods ==
    {GET, PUT, LowerGet, Brew}

ReqPaths ==
    {<<"/", "a">>, <<"/", "a", "/">>, <<"/", "a", "/", "b">>}

\* The size of the model: the most calls of AddHandler and Match in one
\* behaviour, and the most middleware the Router is given.
MaxRegistrations ==
    2

MaxMiddleware ==
    2

VARIABLES
    mutex,            \* r.mutex: the goroutine holding it, or NoProc
    dispatcher,       \* r.dispatcher
    middleware,       \* r.middleware
    notFoundHandler,  \* r.notFoundHandler
    strict,           \* r.strict
    pc,               \* the statement each goroutine is about to execute
    ret,              \* where a registration call returns to
    call,             \* the arguments of the registration call in progress
    matchIdx,         \* Match: the index of its loop over httpMethods, or 0
    route,            \* AddHandler: its local variable route
    panicking,        \* AddHandler: NewRoute panicked
    req,              \* ServeHTTP: the request
    mws,              \* ServeHTTP: the slice its range statement iterates
    mwi,              \* ServeHTTP: the index of that iteration
    visited,          \* findMatchingRouteAndHandler: entries already visited
    found,            \* ServeHTTP: the (route, handler) pair of the lookup
    log,              \* the handlers the dispatch in progress has invoked
    registrations     \* the calls counted against MaxRegistrations

routerVars ==
    <<mutex, dispatcher, middleware, notFoundHandler, strict>>

regVars ==
    <<ret, call, matchIdx, route, panicking>>

srvVars ==
    <<req, mws, mwi, visited, found, log>>

\* A call that adds routes is counted.
Counted ==
    /\ registrations < MaxRegistrations
    /\ registrations' = registrations + 1

vars ==
    <<mutex, dispatcher, middleware, notFoundHandler, strict,
      pc, ret, call, matchIdx, route, panicking,
      req, mws, mwi, visited, found, log, registrations>>

NoCall ==
    [method |-> <<>>, path |-> <<>>, handler |-> NilHandler]

NoReq ==
    [method |-> <<>>, path |-> <<>>]

\* The pair findMatchingRouteAndHandler returns when it finds nothing.
NilPair ==
    [route |-> NilRoute, handler |-> NilHandler, idx |-> 0]

\* NewRouter (dispatcher.go:413-419): the zero Router with a dispatcher, the
\* default not-found handler and an unlocked mutex.
Init ==
    /\ mutex = NoProc
    /\ dispatcher = NewDispatcher
    /\ middleware = <<>>
    /\ notFoundHandler = DefaultNotFound
    /\ strict = FALSE
    /\ pc = [t \in Procs |-> "idle"]
    /\ ret = [t \in Procs |-> "idle"]
    /\ call = [t \in Procs |-> NoCall]
    /\ matchIdx = [t \in Procs |-> 0]
    /\ route = [t \in Procs |-> NilRoute]
    /\ panicking = [t \in Procs |-> FALSE]
    /\ req = [t \in Procs |-> NoReq]
    /\ mws = [t \in Procs |-> <<>>]
    /\ mwi = [t \in Procs |-> 0]
    /\ visited = [t \in Procs |-> {}]
    /\ found = [t \in Procs |-> NilPair]
    /\ log = [t \in Procs |-> <<>>]
    /\ registrations = 0

\* The statements at which a middleware, a route handler or the fallback
\* handler is running on behalf of a dispatch.
InvokingPcs ==
    {"InMiddleware", "InHandler", "InFallback"}

\* A goroutine calls a registration method when it is at rest, or from inside
\* a handler or middleware that its dispatch is running.
CanRegister(t) ==
    pc[t] = "idle" \/ pc[t] \in InvokingPcs

\* r.mutex.Lock(): blocks until the mutex is free.
Lock(t, from, to) ==
    /\ pc[t] = from
    /\ mutex = NoProc
    /\ mutex' = t
    /\ pc' = [pc EXCEPT ![t] = to]

(***************************************************************************)
(* Registration (dispatcher.go:205-342)                                    *)
(***************************************************************************)

\* A registration method is entered: its arguments and its return address.
Enter(t, label, method, path, handler) ==
    /\ ret' = [ret EXCEPT ![t] = pc[t]]
    /\ call' = [call EXCEPT ![t] = [method |-> method, path |-> path, handler |-> handler]]
    /\ pc' = [pc EXCEPT ![t] = label]

\* A registration method returns to its caller.
Return(t) ==
    /\ pc' = [pc EXCEPT ![t] = ret[t]]
    /\ ret' = [ret EXCEPT ![t] = "idle"]
    /\ call' = [call EXCEPT ![t] = NoCall]

\* A faulty RestrictRouteMatching: it compiles the registered routes again
\* with the new flag.
RestrictSetRecompile(t) ==
    /\ pc[t] = "RS_set"
    /\ strict' = TRUE
    /\ dispatcher' = [m \in DOMAIN dispatcher |->
                         [k \in 1..Len(dispatcher[m]) |->
                             [route   |-> NewRoute(dispatcher[m][k].route.path, TRUE),
                              handler |-> dispatcher[m][k].handler]]]
    /\ Return(t)
    /\ UNCHANGED <<mutex, middleware, notFoundHandler,
                   matchIdx, route, panicking, srvVars, registrations>>

\* RestrictRouteMatching (dispatcher.go:208-211): r.strict = true, with no
\* lock taken.
RestrictCall(t) ==
    /\ CanRegister(t)
    /\ Enter(t, "RS_set", <<>>, <<>>, NilHandler)
    /\ UNCHANGED <<routerVars, matchIdx, route, panicking, srvVars, registrations>>

RestrictSet(t) ==
    /\ pc[t] = "RS_set"
    /\ strict' = TRUE
    /\ Return(t)
    /\ UNCHANGED <<mutex, dispatcher, middleware, notFoundHandler,
                   matchIdx, route, panicking, srvVars, registrations>>

\* UnrestrictRouteMatching (dispatcher.go:216-219): r.strict = false, with no
\* lock taken.
UnrestrictCall(t) ==
    /\ CanRegister(t)
    /\ Enter(t, "US_set", <<>>, <<>>, NilHandler)
    /\ UNCHANGED <<routerVars, matchIdx, route, panicking, srvVars, registrations>>

UnrestrictSet(t) ==
    /\ pc[t] = "US_set"
    /\ strict' = FALSE
    /\ Return(t)
    /\ UNCHANGED <<mutex, dispatcher, middleware, notFoundHandler,
                   matchIdx, route, panicking, srvVars, registrations>>

\* AddHandler (dispatcher.go:311-321), called directly or through Get, Put,
\* ... (dispatcher.go:225-291).
AddHandlerCall(t, method, path, handler) ==
    /\ CanRegister(t)
    /\ Counted
    /\ Enter(t, "AH_lock", method, path, handler)
    /\ UNCHANGED <<routerVars, matchIdx, route, panicking, srvVars>>

\* dispatcher.go:312.
AddHandlerLock(t) ==
    /\ Lock(t, "AH_lock", "AH_new")
    /\ UNCHANGED <<dispatcher, middleware, notFoundHandler, strict, regVars, srvVars, registrations>>

\* A faulty AddHandler: it builds the Route whatever the method is.
AddHandlerNewRouteAlways(t) ==
    /\ pc[t] = "AH_new"
    /\ IF NewRoutePanics(call[t].path, strict)
       THEN /\ panicking' = [panicking EXCEPT ![t] = TRUE]
            /\ pc' = [pc EXCEPT ![t] = "AH_unlock"]
            /\ UNCHANGED route
       ELSE /\ route' = [route EXCEPT ![t] = NewRoute(call[t].path, strict)]
            /\ pc' = [pc EXCEPT ![t] = "AH_insert"]
            /\ UNCHANGED panicking
    /\ UNCHANGED <<routerVars, ret, call, matchIdx, srvVars, registrations>>

\* A faulty AddHandler: the Route it builds depends on what the bucket
\* already holds.
AddHandlerNewRouteByBucket(t) ==
    /\ pc[t] = "AH_new"
    /\ IF call[t].method \in DOMAIN dispatcher
       THEN /\ route' = [route EXCEPT ![t] =
                            NewRoute(call[t].path,
                                     IF dispatcher[call[t].method] = <<>> THEN strict ELSE ~strict)]
            /\ pc' = [pc EXCEPT ![t] = "AH_insert"]
            /\ UNCHANGED panicking
       ELSE /\ pc' = [pc EXCEPT ![t] = "AH_unlock"]
            /\ UNCHANGED <<route, panicking>>
    /\ UNCHANGED <<routerVars, ret, call, matchIdx, srvVars, registrations>>

\* dispatcher.go:315-316: the map lookup, and NewRoute with the strict flag
\* as it is now. A panic of NewRoute leaves through the deferred Unlock.
AddHandlerNewRoute(t) ==
    /\ pc[t] = "AH_new"
    /\ IF call[t].method \in DOMAIN dispatcher
       THEN IF NewRoutePanics(call[t].path, strict)
            THEN /\ panicking' = [panicking EXCEPT ![t] = TRUE]
                 /\ pc' = [pc EXCEPT ![t] = "AH_unlock"]
                 /\ UNCHANGED route
            ELSE /\ route' = [route EXCEPT ![t] = NewRoute(call[t].path, strict)]
                 /\ pc' = [pc EXCEPT ![t] = "AH_insert"]
                 /\ UNCHANGED panicking
       ELSE /\ pc' = [pc EXCEPT ![t] = "AH_unlock"]
            /\ UNCHANGED <<route, panicking>>
    /\ UNCHANGED <<routerVars, ret, call, matchIdx, srvVars, registrations>>

\* A faulty AddHandler: the bucket is keyed by the Route's value, so a
\* template that is in the bucket already has its handler replaced.
AddHandlerInsertKeyed(t) ==
    /\ pc[t] = "AH_insert"
    /\ LET bucket == dispatcher[call[t].method]
           same   == {i \in 1..Len(bucket) : bucket[i].route = route[t]}
       IN  dispatcher' = [dispatcher EXCEPT ![call[t].method] =
                              IF same = {}
                              THEN Append(bucket, [route |-> route[t], handler |-> call[t].handler])
                              ELSE [i \in 1..Len(bucket) |->
                                        IF i \in same
                                        THEN [route |-> route[t], handler |-> call[t].handler]
                                        ELSE bucket[i]]]
    /\ pc' = [pc EXCEPT ![t] = "AH_unlock"]
    /\ UNCHANGED <<mutex, middleware, notFoundHandler, strict, regVars, srvVars, registrations>>

\* dispatcher.go:317: routes[route] = handler. The Route is a fresh pointer,
\* so the bucket gains an entry.
AddHandlerInsert(t) ==
    /\ pc[t] = "AH_insert"
    /\ dispatcher' = [dispatcher EXCEPT ![call[t].method] =
                          Append(@, [route |-> route[t], handler |-> call[t].handler])]
    /\ pc' = [pc EXCEPT ![t] = "AH_unlock"]
    /\ UNCHANGED <<mutex, middleware, notFoundHandler, strict, regVars, srvVars, registrations>>

\* A faulty AddHandler: it returns without the deferred Unlock.
AddHandlerUnlockKeep(t) ==
    /\ pc[t] = "AH_unlock"
    /\ route' = [route EXCEPT ![t] = NilRoute]
    /\ Return(t)
    /\ UNCHANGED <<routerVars, matchIdx, panicking, srvVars, registrations>>

\* A faulty AddHandler: the Unlock is its last statement instead of a
\* deferred call, so a panic leaves AddHandler with the mutex held.
AddHandlerUnlockAtEnd(t) ==
    /\ pc[t] = "AH_unlock"
    /\ route' = [route EXCEPT ![t] = NilRoute]
    /\ IF panicking[t]
       THEN /\ pc' = [pc EXCEPT ![t] = "Panicked"]
            /\ UNCHANGED <<mutex, ret, call, matchIdx>>
       ELSE /\ mutex' = NoProc
            /\ IF matchIdx[t] > 0
               THEN /\ pc' = [pc EXCEPT ![t] = "M_loop"]
                    /\ matchIdx' = [matchIdx EXCEPT ![t] = @ + 1]
                    /\ UNCHANGED <<ret, call>>
               ELSE /\ Return(t)
                    /\ UNCHANGED matchIdx
    /\ UNCHANGED <<dispatcher, middleware, notFoundHandler, strict, panicking, srvVars, registrations>>

\* dispatcher.go:313: the deferred Unlock, then the return (to Match's loop
\* when Match made the call) or the panic leaving AddHandler: the goroutine
\* unwinds and takes no further step.
AddHandlerUnlock(t) ==
    /\ pc[t] = "AH_unlock"
    /\ mutex' = NoProc
    /\ route' = [route EXCEPT ![t] = NilRoute]
    /\ IF panicking[t]
       THEN /\ pc' = [pc EXCEPT ![t] = "Panicked"]
            /\ UNCHANGED <<ret, call, matchIdx>>
       ELSE IF matchIdx[t] > 0
            THEN /\ pc' = [pc EXCEPT ![t] = "M_loop"]
                 /\ matchIdx' = [matchIdx EXCEPT ![t] = @ + 1]
                 /\ UNCHANGED <<ret, call>>
            ELSE /\ Return(t)
                 /\ UNCHANGED matchIdx
    /\ UNCHANGED <<dispatcher, middleware, notFoundHandler, strict, panicking, srvVars, registrations>>

\* Match (dispatcher.go:297-303): AddHandler for every supported method.
MatchCall(t, path, handler) ==
    /\ CanRegister(t)
    /\ Counted
    /\ Enter(t, "M_loop", <<>>, path, handler)
    /\ matchIdx' = [matchIdx EXCEPT ![t] = 1]
    /\ UNCHANGED <<routerVars, route, panicking, srvVars>>

\* A faulty Match loop: it stops before the last method.
MatchLoopShort(t) ==
    /\ pc[t] = "M_loop"
    /\ IF matchIdx[t] < Len(httpMethods)
       THEN /\ call' = [call EXCEPT ![t].method = httpMethods[matchIdx[t]]]
            /\ pc' = [pc EXCEPT ![t] = "AH_lock"]
            /\ UNCHANGED <<ret, matchIdx>>
       ELSE /\ Return(t)
            /\ matchIdx' = [matchIdx EXCEPT ![t] = 0]
    /\ UNCHANGED <<routerVars, route, panicking, srvVars, registrations>>

\* dispatcher.go:298-302: the loop head; it calls AddHandler or returns.
MatchLoop(t) ==
    /\ pc[t] = "M_loop"
    /\ IF matchIdx[t] <= Len(httpMethods)
       THEN /\ call' = [call EXCEPT ![t].method = httpMethods[matchIdx[t]]]
            /\ pc' = [pc EXCEPT ![t] = "AH_lock"]
            /\ UNCHANGED <<ret, matchIdx>>
       ELSE /\ Return(t)
            /\ matchIdx' = [matchIdx EXCEPT ![t] = 0]
    /\ UNCHANGED <<routerVars, route, panicking, srvVars, registrations>>

\* RegisterMiddleware (dispatcher.go:325-331).
RegisterMiddlewareCall(t, mw) ==
    /\ CanRegister(t)
    /\ Len(middleware) < MaxMiddleware
    /\ Enter(t, "RM_lock", <<>>, <<>>, mw)
    /\ UNCHANGED <<routerVars, matchIdx, route, panicking, srvVars, registrations>>

RegisterMiddlewareLock(t) ==
    /\ Lock(t, "RM_lock", "RM_append")
    /\ UNCHANGED <<dispatcher, middleware, notFoundHandler, strict, regVars, srvVars, registrations>>

\* A faulty RegisterMiddleware: it leaves out a middleware the Router
\* already has.
RegisterMiddlewareAppendUnique(t) ==
    /\ pc[t] = "RM_append"
    /\ middleware' = IF call[t].handler \in SeqRange(middleware)
                     THEN middleware
                     ELSE Append(middleware, call[t].handler)
    /\ pc' = [pc EXCEPT ![t] = "RM_unlock"]
    /\ UNCHANGED <<mutex, dispatcher, notFoundHandler, strict, regVars, srvVars, registrations>>

\* dispatcher.go:329.
RegisterMiddlewareAppend(t) ==
    /\ pc[t] = "RM_append"
    /\ middleware' = Append(middleware, call[t].handler)
    /\ pc' = [pc EXCEPT ![t] = "RM_unlock"]
    /\ UNCHANGED <<mutex, dispatcher, notFoundHandler, strict, regVars, srvVars, registrations>>

RegisterMiddlewareUnlock(t) ==
    /\ pc[t] = "RM_unlock"
    /\ mutex' = NoProc
    /\ Return(t)
    /\ UNCHANGED <<dispatcher, middleware, notFoundHandler, strict,
                   matchIdx, route, panicking, srvVars, registrations>>

\* NotFound (dispatcher.go:336-342).
NotFoundCall(t, handler) ==
    /\ CanRegister(t)
    /\ Enter(t, "NF_lock", <<>>, <<>>, handler)
    /\ UNCHANGED <<routerVars, matchIdx, route, panicking, srvVars, registrations>>

NotFoundLock(t) ==
    /\ Lock(t, "NF_lock", "NF_set")
    /\ UNCHANGED <<dispatcher, middleware, notFoundHandler, strict, regVars, srvVars, registrations>>

\* A faulty NotFound: it replaces the default handler only.
NotFoundSetOnce(t) ==
    /\ pc[t] = "NF_set"
    /\ notFoundHandler' = IF notFoundHandler = DefaultNotFound
                          THEN call[t].handler
                          ELSE notFoundHandler
    /\ pc' = [pc EXCEPT ![t] = "NF_unlock"]
    /\ UNCHANGED <<mutex, dispatcher, middleware, strict, regVars, srvVars, registrations>>

\* dispatcher.go:340.
NotFoundSet(t) ==
    /\ pc[t] = "NF_set"
    /\ notFoundHandler' = call[t].handler
    /\ pc' = [pc EXCEPT ![t] = "NF_unlock"]
    /\ UNCHANGED <<mutex, dispatcher, middleware, strict, regVars, srvVars, registrations>>

NotFoundUnlock(t) ==
    /\ pc[t] = "NF_unlock"
    /\ mutex' = NoProc
    /\ Return(t)
    /\ UNCHANGED <<dispatcher, middleware, notFoundHandler, strict,
                   matchIdx, route, panicking, srvVars, registrations>>

(***************************************************************************)
(* Dispatch (dispatcher.go:347-395)                                        *)
(***************************************************************************)

\* One invocation recorded in the log of a dispatch: a middleware (with the
\* value it returned, FALSE while it runs), a route handler (with the bucket
\* and the entry it was found in) or the fallback handler.
Event(kind, id, handled, method, idx) ==
    [kind |-> kind, id |-> id, handled |-> handled, method |-> method, idx |-> idx]

\* ServeHTTP is called with a request.
ServeHTTPCall(t, method, path) ==
    /\ pc[t] = "idle"
    /\ req' = [req EXCEPT ![t] = [method |-> method, path |-> path]]
    /\ pc' = [pc EXCEPT ![t] = "SH_range"]
    /\ UNCHANGED <<routerVars, regVars, mws, mwi, visited, found, log, registrations>>

\* A faulty range statement: it starts at the second middleware.
ServeHTTPRangeSkip(t) ==
    /\ pc[t] = "SH_range"
    /\ mws' = [mws EXCEPT ![t] = middleware]
    /\ mwi' = [mwi EXCEPT ![t] = 2]
    /\ pc' = [pc EXCEPT ![t] = "SH_loop"]
    /\ UNCHANGED <<routerVars, regVars, req, visited, found, log, registrations>>

\* dispatcher.go:375: the range statement evaluates r.middleware once, with
\* no lock taken.
ServeHTTPRange(t) ==
    /\ pc[t] = "SH_range"
    /\ mws' = [mws EXCEPT ![t] = middleware]
    /\ mwi' = [mwi EXCEPT ![t] = 1]
    /\ pc' = [pc EXCEPT ![t] = "SH_loop"]
    /\ UNCHANGED <<routerVars, regVars, req, visited, found, log, registrations>>

\* dispatcher.go:375-376: the loop head; it calls the next middleware or
\* goes on to the lookup.
ServeHTTPLoop(t) ==
    /\ pc[t] = "SH_loop"
    /\ IF mwi[t] <= Len(mws[t])
       THEN /\ log' = [log EXCEPT ![t] = Append(@, Event("mw", mws[t][mwi[t]], FALSE, <<>>, 0))]
            /\ pc' = [pc EXCEPT ![t] = "InMiddleware"]
       ELSE /\ pc' = [pc EXCEPT ![t] = "FM_lock"]
            /\ UNCHANGED log
    /\ UNCHANGED <<routerVars, regVars, req, mws, mwi, visited, found, registrations>>

\* A faulty chain: it goes on to the next middleware whatever the middleware
\* returned.
MiddlewareReturnContinue(t, handled) ==
    /\ pc[t] = "InMiddleware"
    /\ log' = [log EXCEPT ![t][Len(log[t])].handled = handled]
    /\ pc' = [pc EXCEPT ![t] = "SH_loop"]
    /\ mwi' = [mwi EXCEPT ![t] = @ + 1]
    /\ UNCHANGED <<routerVars, regVars, req, mws, visited, found, registrations>>

\* dispatcher.go:376-380: the middleware returns; true ends the dispatch.
MiddlewareReturn(t, handled) ==
    /\ pc[t] = "InMiddleware"
    /\ log' = [log EXCEPT ![t][Len(log[t])].handled = handled]
    /\ IF handled
       THEN /\ pc' = [pc EXCEPT ![t] = "SH_done"]
            /\ UNCHANGED mwi
       ELSE /\ pc' = [pc EXCEPT ![t] = "SH_loop"]
            /\ mwi' = [mwi EXCEPT ![t] = @ + 1]
    /\ UNCHANGED <<routerVars, regVars, req, mws, visited, found, registrations>>

\* A faulty lookup: it goes on without taking the mutex.
FindLockFree(t) ==
    /\ pc[t] = "FM_lock"
    /\ pc' = [pc EXCEPT ![t] = "FM_lookup"]
    /\ UNCHANGED <<routerVars, regVars, srvVars, registrations>>

\* dispatcher.go:348.
FindLock(t) ==
    /\ Lock(t, "FM_lock", "FM_lookup")
    /\ UNCHANGED <<dispatcher, middleware, notFoundHandler, strict, regVars, srvVars, registrations>>

\* A faulty lookup method: the first supported method, whatever the request.
LookupFirstMethod(t) ==
    httpMethods[1]

\* A faulty lookup: it takes the method as the request spells it.
LookupExactMethod(t) ==
    req[t].method

\* dispatcher.go:351: method := strings.ToUpper(req.Method).
LookupMethod(t) ==
    ToUpper(req[t].method)

\* dispatcher.go:353: the map lookup of the method's bucket.
FindLookup(t) ==
    /\ pc[t] = "FM_lookup"
    /\ IF LookupMethod(t) \in DOMAIN dispatcher
       THEN pc' = [pc EXCEPT ![t] = "FM_scan"]
       ELSE pc' = [pc EXCEPT ![t] = "FM_unlock"]
    /\ found' = [found EXCEPT ![t] = NilPair]
    /\ visited' = [visited EXCEPT ![t] = {}]
    /\ UNCHANGED <<routerVars, regVars, req, mws, mwi, log, registrations>>

\* The entries of the bucket the range statement has not visited yet.
Unvisited(t) ==
    (1..Len(dispatcher[LookupMethod(t)])) \ visited[t]

\* A faulty scan: it returns the entry it visits without testing its
\* matcher.
FindScanAny(t) ==
    /\ pc[t] = "FM_scan"
    /\ IF Unvisited(t) = {}
       THEN /\ pc' = [pc EXCEPT ![t] = "FM_unlock"]
            /\ visited' = [visited EXCEPT ![t] = {}]
            /\ UNCHANGED found
       ELSE \E i \in Unvisited(t) :
              LET entry == dispatcher[LookupMethod(t)][i]
              IN  /\ found' = [found EXCEPT ![t] =
                            [route |-> entry.route, handler |-> entry.handler, idx |-> i]]
                  /\ pc' = [pc EXCEPT ![t] = "FM_unlock"]
                  /\ visited' = [visited EXCEPT ![t] = {}]
    /\ UNCHANGED <<routerVars, regVars, req, mws, mwi, log, registrations>>

\* dispatcher.go:354-358: one iteration of the range over the bucket. A Go
\* map is visited in no particular order, so the next entry is any entry not
\* visited yet; the first one whose matcher accepts the path is returned.
FindScan(t) ==
    /\ pc[t] = "FM_scan"
    /\ IF Unvisited(t) = {}
       THEN /\ pc' = [pc EXCEPT ![t] = "FM_unlock"]
            /\ visited' = [visited EXCEPT ![t] = {}]
            /\ UNCHANGED found
       ELSE \E i \in Unvisited(t) :
              LET entry == dispatcher[LookupMethod(t)][i]
              IN  IF MatchString(entry.route.matcher, req[t].path)
                  THEN /\ found' = [found EXCEPT ![t] =
                                [route |-> entry.route, handler |-> entry.handler, idx |-> i]]
                       /\ pc' = [pc EXCEPT ![t] = "FM_unlock"]
                       /\ visited' = [visited EXCEPT ![t] = {}]
                  ELSE /\ visited' = [visited EXCEPT ![t] = @ \cup {i}]
                       /\ UNCHANGED <<pc, found>>
    /\ UNCHANGED <<routerVars, regVars, req, mws, mwi, log, registrations>>

\* A faulty lookup: it returns to ServeHTTP with the mutex still held.
FindUnlockKeep(t) ==
    /\ pc[t] = "FM_unlock"
    /\ pc' = [pc EXCEPT ![t] = "SH_check"]
    /\ UNCHANGED <<routerVars, regVars, srvVars, registrations>>

\* dispatcher.go:349: the deferred Unlock, and the return to ServeHTTP.
FindUnlock(t) ==
    /\ pc[t] = "FM_unlock"
    /\ mutex' = NoProc
    /\ pc' = [pc EXCEPT ![t] = "SH_check"]
    /\ UNCHANGED <<dispatcher, middleware, notFoundHandler, strict, regVars, srvVars, registrations>>

\* A faulty ServeHTTP: it invokes the fallback handler whatever the lookup
\* returned.
ServeHTTPInvokeFallback(t) ==
    /\ pc[t] = "SH_check"
    /\ log' = [log EXCEPT ![t] =
                   Append(@, Event("fallback", notFoundHandler, FALSE, <<>>, 0))]
    /\ pc' = [pc EXCEPT ![t] = "InFallback"]
    /\ UNCHANGED <<routerVars, regVars, req, mws, mwi, visited, found, registrations>>

\* A faulty ServeHTTP: it may invoke the fallback handler although the
\* lookup returned a route.
ServeHTTPInvokeEither(t) ==
    /\ pc[t] = "SH_check"
    /\ \/ /\ log' = [log EXCEPT ![t] =
                        Append(@, Event("fallback", notFoundHandler, FALSE, <<>>, 0))]
          /\ pc' = [pc EXCEPT ![t] = "InFallback"]
       \/ /\ found[t].route # NilRoute
          /\ found[t].handler # NilHandler
          /\ log' = [log EXCEPT ![t] =
                        Append(@, Event("route", found[t].handler, FALSE,
                                        LookupMethod(t), found[t].idx))]
          /\ pc' = [pc EXCEPT ![t] = "InHandler"]
    /\ UNCHANGED <<routerVars, regVars, req, mws, mwi, visited, found, registrations>>

\* A faulty ServeHTTP: it invokes the fallback handler before the handler of
\* the route the lookup returned.
ServeHTTPInvokeBoth(t) ==
    /\ pc[t] = "SH_check"
    /\ IF found[t].route = NilRoute \/ found[t].handler = NilHandler
       THEN /\ log' = [log EXCEPT ![t] =
                          Append(@, Event("fallback", notFoundHandler, FALSE, <<>>, 0))]
            /\ pc' = [pc EXCEPT ![t] = "InFallback"]
       ELSE /\ log' = [log EXCEPT ![t] =
                          Append(Append(@, Event("fallback", notFoundHandler, FALSE, <<>>, 0)),
                                 Event("route", found[t].handler, FALSE,
                                       LookupMethod(t), found[t].idx))]
            /\ pc' = [pc EXCEPT ![t] = "InHandler"]
    /\ UNCHANGED <<routerVars, regVars, req, mws, mwi, visited, found, registrations>>

\* dispatcher.go:385-394: the fallback handler (read with no lock taken) when
\* the lookup returned nil, the handler of the route otherwise.
ServeHTTPInvoke(t) ==
    /\ pc[t] = "SH_check"
    /\ IF found[t].route = NilRoute \/ found[t].handler = NilHandler
       THEN /\ log' = [log EXCEPT ![t] =
                          Append(@, Event("fallback", notFoundHandler, FALSE, <<>>, 0))]
            /\ pc' = [pc EXCEPT ![t] = "InFallback"]
       ELSE /\ log' = [log EXCEPT ![t] =
                          Append(@, Event("route", found[t].handler, FALSE,
                                          LookupMethod(t), found[t].idx))]
            /\ pc' = [pc EXCEPT ![t] = "InHandler"]
    /\ UNCHANGED <<routerVars, regVars, req, mws, mwi, visited, found, registrations>>

\* The route handler or the fallback handler returns.
HandlerReturn(t) ==
    /\ pc[t] \in {"InHandler", "InFallback"}
    /\ pc' = [pc EXCEPT ![t] = "SH_done"]
    /\ UNCHANGED <<routerVars, regVars, srvVars, registrations>>

\* ServeHTTP returns.
ServeHTTPReturn(t) ==
    /\ pc[t] = "SH_done"
    /\ pc' = [pc EXCEPT ![t] = "idle"]
    /\ req' = [req EXCEPT ![t] = NoReq]
    /\ mws' = [mws EXCEPT ![t] = <<>>]
    /\ mwi' = [mwi EXCEPT ![t] = 0]
    /\ visited' = [visited EXCEPT ![t] = {}]
    /\ found' = [found EXCEPT ![t] = NilPair]
    /\ log' = [log EXCEPT ![t] = <<>>]
    /\ UNCHANGED <<routerVars, regVars, registrations>>

(***************************************************************************)
(* The specification                                                       *)
(***************************************************************************)

\* The next handler and the next middleware a registration call passes.
NextHandler ==
    Handlers[registrations + 1]

NextMiddleware ==
    Middlewares[Len(middleware) + 1]

\* The steps inside AddHandler, NotFound, RestrictRouteMatching and
\* UnrestrictRouteMatching.
RegistrationStep(t) ==
    \/ RestrictSet(t)
    \/ UnrestrictSet(t)
    \/ AddHandlerLock(t)
    \/ AddHandlerNewRoute(t)
    \/ AddHandlerInsert(t)
    \/ AddHandlerUnlock(t)
    \/ NotFoundLock(t)
    \/ NotFoundSet(t)
    \/ NotFoundUnlock(t)

\* The steps inside RegisterMiddleware, and the return of a middleware.
MiddlewareStep(t) ==
    \/ RegisterMiddlewareLock(t)
    \/ RegisterMiddlewareAppend(t)
    \/ RegisterMiddlewareUnlock(t)
    \/ \E handled \in BOOLEAN : MiddlewareReturn(t, handled)

\* The steps inside ServeHTTP and findMatchingRouteAndHandler.
DispatchStep(t) ==
    \/ ServeHTTPRange(t)
    \/ ServeHTTPLoop(t)
    \/ FindLock(t)
    \/ FindLookup(t)
    \/ FindScan(t)
    \/ FindUnlock(t)
    \/ ServeHTTPInvoke(t)
    \/ HandlerReturn(t)
    \/ ServeHTTPReturn(t)

\* Routing: one goroutine registers routes (with AddHandler and Match) and a
\* fallback handler, sets the strict flag, and serves requests in turn, as
\* the package's tests do. The Router has no middleware.
Next ==
    \E t \in {"main"} :
        \/ pc[t] = "idle" /\ RestrictCall(t)
        \/ pc[t] = "idle" /\ UnrestrictCall(t)
        \/ \E method \in RegMethods, path \in Templates :
               pc[t] = "idle" /\ AddHandlerCall(t, method, path, NextHandler)
        \/ pc[t] = "idle" /\ MatchCall(t, TemplateA, NextHandler)
        \/ MatchLoop(t)
        \/ \E handler \in FallbackHandlers : pc[t] = "idle" /\ NotFoundCall(t, handler)
        \/ \E method \in ReqMethods, path \in ReqPaths : ServeHTTPCall(t, method, path)
        \/ RegistrationStep(t)
        \/ DispatchStep(t)

Spec ==
    Init /\ [][Next]_vars

\* The middleware chain: one goroutine registers middleware, GET routes and
\* a fallback handler, sets the strict flag, and serves requests in turn.
NextChain ==
    \E t \in {"main"} :
        \/ pc[t] = "idle" /\ RestrictCall(t)
        \/ pc[t] = "idle" /\ UnrestrictCall(t)
        \/ \E path \in Templates :
               pc[t] = "idle" /\ AddHandlerCall(t, GET, path, NextHandler)
        \/ pc[t] = "idle" /\ RegisterMiddlewareCall(t, NextMiddleware)
        \/ \E handler \in FallbackHandlers : pc[t] = "idle" /\ NotFoundCall(t, handler)
        \/ \E method \in ReqMethods, path \in ReqPaths : ServeHTTPCall(t, method, path)
        \/ RegistrationStep(t)
        \/ MiddlewareStep(t)
        \/ DispatchStep(t)

SpecChain ==
    Init /\ [][NextChain]_vars

\* A fresh Router is given one Match call and then serves requests of every
\* supported method.
NextMatch ==
    \E t \in {"main"} :
        \/ \E path \in Templates :
               /\ pc[t] = "idle"
               /\ registrations = 0
               /\ MatchCall(t, path, NextHandler)
        \/ MatchLoop(t)
        \/ AddHandlerLock(t)
        \/ AddHandlerNewRoute(t)
        \/ AddHandlerInsert(t)
        \/ AddHandlerUnlock(t)
        \/ \E method \in SeqRange(httpMethods), path \in ReqPaths :
               ServeHTTPCall(t, method, path)
        \/ DispatchStep(t)

SpecMatch ==
    Init /\ [][NextMatch]_vars

\* Two goroutines: "main" registers while "conn" serves requests, and the
\* handlers and middleware that the dispatch of "conn" runs call AddHandler,
\* RegisterMiddleware and NotFound in turn. RegisterMiddleware is called
\* while the Router has no middleware.
NextConc ==
    \/ \E t \in {"main"} :
           \/ pc[t] = "idle" /\ RestrictCall(t)
           \/ pc[t] = "idle" /\ UnrestrictCall(t)
           \/ pc[t] = "idle" /\ AddHandlerCall(t, GET, TemplateA, NextHandler)
           \/ pc[t] = "idle" /\ middleware = <<>> /\ RegisterMiddlewareCall(t, NextMiddleware)
           \/ pc[t] = "idle" /\ NotFoundCall(t, "nf1")
    \/ \E t \in {"conn"} :
           \/ pc[t] \in InvokingPcs /\ AddHandlerCall(t, GET, TemplateA, NextHandler)
           \/ pc[t] \in InvokingPcs /\ middleware = <<>> /\ RegisterMiddlewareCall(t, NextMiddleware)
           \/ pc[t] \in InvokingPcs /\ NotFoundCall(t, "nf1")
           \/ ServeHTTPCall(t, GET, TemplateA)
           \/ DispatchStep(t)
    \/ \E t \in Procs :
           \/ RegistrationStep(t)
           \/ MiddlewareStep(t)

SpecConc ==
    Init /\ [][NextConc]_vars

\* Registration with arguments AddHandler does not accept: a method that is
\* no key of the dispatcher, and templates with a custom capture that is not
\* a regular expression. "/:x(+)" compiles to "^\/(?:(+))\/?$", which
\* regexp.MustCompile rejects; "/:x(*)" compiles to "^\/(?:((.*)))\/?$".
TemplateBad ==
    <<"/", ":", "x", "(", "+", ")">>

TemplateStar ==
    <<"/", ":", "x", "(", "*", ")">>

AnyTemplates ==
    {TemplateA, TemplateBad, TemplateStar}

AnyMethods ==
    {GET, LowerGet, Brew}

\* "main" sets the Router up, with any method and any template, while
\* "conn" serves GET requests. A goroutine whose AddHandler panicked takes
\* no further step; the other goroutine goes on, as it does when the caller
\* recovers.
NextReg ==
    \/ \E t \in {"main"} :
           \/ pc[t] = "idle" /\ RestrictCall(t)
           \/ pc[t] = "idle" /\ UnrestrictCall(t)
           \/ \E method \in AnyMethods, path \in AnyTemplates :
                  pc[t] = "idle" /\ AddHandlerCall(t, method, path, NextHandler)
           \/ pc[t] = "idle" /\ middleware = <<>> /\ RegisterMiddlewareCall(t, NextMiddleware)
           \/ pc[t] = "idle" /\ NotFoundCall(t, "nf1")
           \/ RegistrationStep(t)
           \/ RegisterMiddlewareLock(t)
           \/ RegisterMiddlewareAppend(t)
           \/ RegisterMiddlewareUnlock(t)
    \/ \E t \in {"conn"} :
           \/ ServeHTTPCall(t, GET, TemplateA)
           \/ \E handled \in BOOLEAN : MiddlewareReturn(t, handled)
           \/ DispatchStep(t)

SpecReg ==
    Init /\ [][NextReg]_vars

\* The handlers passed to NotFound and the middleware passed to
\* RegisterMiddleware when a Router is set up with any of them, in any
\* order and more than once.
SetupFallbacks ==
    {"nf1", "nf2"}

SetupMiddlewares ==
    {"mwA", "mwB"}

SetupPaths ==
    {<<"/", "a">>, <<"/", "a", "/", "b">>}

\* Setting a Router up: one goroutine registers middleware, fallback
\* handlers and GET routes for "/a", and serves GET requests in turn.
NextSetup ==
    \E t \in {"main"} :
        \/ pc[t] = "idle" /\ AddHandlerCall(t, GET, TemplateA, NextHandler)
        \/ AddHandlerLock(t)
        \/ AddHandlerNewRoute(t)
        \/ AddHandlerInsert(t)
        \/ AddHandlerUnlock(t)
        \/ \E mw \in SetupMiddlewares : pc[t] = "idle" /\ RegisterMiddlewareCall(t, mw)
        \/ \E handler \in SetupFallbacks : pc[t] = "idle" /\ NotFoundCall(t, handler)
        \/ NotFoundLock(t)
        \/ NotFoundSet(t)
        \/ NotFoundUnlock(t)
        \/ \E path \in SetupPaths : ServeHTTPCall(t, GET, path)
        \/ MiddlewareStep(t)
        \/ DispatchStep(t)

SpecSetup ==
    Init /\ [][NextSetup]_vars

\* The steps of AddHandler's NewRoute statement and of the scan, whatever
\* their outcome: the same steps as AddHandlerNewRoute and FindScan take,
\* and possible at the same statements, without the evaluation of a matcher.
\* The fairness conditions are stated on these.
AddHandlerNewRouteMoves(t) ==
    /\ pc[t] = "AH_new"
    /\ \/ /\ pc' = [pc EXCEPT ![t] = "AH_unlock"]
          /\ \E p \in BOOLEAN : panicking' = [panicking EXCEPT ![t] = p]
          /\ UNCHANGED route
       \/ /\ route' = [route EXCEPT ![t] = NewRoute(call[t].path, strict)]
          /\ pc' = [pc EXCEPT ![t] = "AH_insert"]
          /\ UNCHANGED panicking
    /\ UNCHANGED <<routerVars, ret, call, matchIdx, srvVars, registrations>>

FindScanMoves(t) ==
    /\ pc[t] = "FM_scan"
    /\ IF Unvisited(t) = {}
       THEN /\ pc' = [pc EXCEPT ![t] = "FM_unlock"]
            /\ visited' = [visited EXCEPT ![t] = {}]
            /\ UNCHANGED found
       ELSE \E i \in Unvisited(t) :
              LET entry == dispatcher[LookupMethod(t)][i]
              IN  \/ /\ found' = [found EXCEPT ![t] =
                               [route |-> entry.route, handler |-> entry.handler, idx |-> i]]
                     /\ pc' = [pc EXCEPT ![t] = "FM_unlock"]
                     /\ visited' = [visited EXCEPT ![t] = {}]
                  \/ /\ visited' = [visited EXCEPT ![t] = @ \cup {i}]
                     /\ UNCHANGED <<pc, found>>
    /\ UNCHANGED <<routerVars, regVars, req, mws, mwi, log, registrations>>

\* Fair scheduling. sync.Mutex hands the mutex to a goroutine that has waited
\* for it (its starvation mode), so a goroutine that is at a Lock again and
\* again while the mutex is free gets it; a handler or middleware that is
\* running returns, however often it calls the Router meanwhile; and the
\* scheduler lets a goroutine that is at a statement that does not block
\* execute it.
Acquire(t) ==
    \/ AddHandlerLock(t)
    \/ RegisterMiddlewareLock(t)
    \/ NotFoundLock(t)
    \/ FindLock(t)

Returns(t) ==
    \/ HandlerReturn(t)
    \/ \E handled \in BOOLEAN : MiddlewareReturn(t, handled)

Step(t) ==
    \/ RestrictSet(t)
    \/ UnrestrictSet(t)
    \/ AddHandlerNewRouteMoves(t)
    \/ AddHandlerInsert(t)
    \/ AddHandlerUnlock(t)
    \/ RegisterMiddlewareAppend(t)
    \/ RegisterMiddlewareUnlock(t)
    \/ NotFoundSet(t)
    \/ NotFoundUnlock(t)
    \/ ServeHTTPRange(t)
    \/ ServeHTTPLoop(t)
    \/ FindLookup(t)
    \/ FindScanMoves(t)
    \/ FindUnlock(t)
    \/ ServeHTTPInvoke(t)
    \/ ServeHTTPReturn(t)

Fairness ==
    \A t \in Procs :
        /\ SF_vars(Acquire(t))
        /\ SF_vars(Returns(t))
        /\ WF_vars(Step(t))

\* Two goroutines under fair scheduling: "main" registers routes, a
\* middleware and a fallback handler and sets the strict flag while "conn"
\* serves requests, whose handlers and middleware call NotFound.
NextFair ==
    \/ \E t \in {"main"} :
           \/ pc[t] = "idle" /\ RestrictCall(t)
           \/ pc[t] = "idle" /\ UnrestrictCall(t)
           \/ pc[t] = "idle" /\ AddHandlerCall(t, GET, TemplateA, NextHandler)
           \/ pc[t] = "idle" /\ middleware = <<>> /\ RegisterMiddlewareCall(t, NextMiddleware)
           \/ pc[t] = "idle" /\ NotFoundCall(t, "nf1")
    \/ \E t \in {"conn"} :
           \/ pc[t] \in InvokingPcs /\ NotFoundCall(t, "nf1")
           \/ ServeHTTPCall(t, GET, TemplateA)
    \/ \E t \in Procs :
           \/ RegistrationStep(t)
           \/ MiddlewareStep(t)
           \/ DispatchStep(t)

SpecFair ==
    Init /\ [][NextFair]_vars /\ Fairness

\* The templates handed to NewRoute: the empty template, literal templates
\* (one with a "." and one with a "+"), required and optional parameters,
\* a parameter name used twice, two names of which one begins with the
\* other, and a wildcard; and the paths they are matched against.
RouteTemplates ==
    {<<>>,
     <<"/", "a">>,
     <<"/", "a", ".", "b">>,
     <<"/", "a", "+">>,
     <<"/", "t", "/", ":", "r">>,
     <<"/", "t", "/", ":", "r", "/", ":", "o", "?">>,
     <<"/", ":", "o", "?">>,
     <<"/", ":", "a", "/", ":", "a">>,
     <<"/", ":", "a", "/", ":", "a", "b", "?">>,
     <<"/", "t", "/", "*">>}

RoutePaths ==
    {<<>>,
     <<"/">>,
     <<"/", "a">>,
     <<"/", "a", "/">>,
     <<"/", "a", "/", "/">>,
     <<"/", "a", "a">>,
     <<"/", "a", "+">>,
     <<"/", "a", ".", "b">>,
     <<"/", "a", "x", "b">>,
     <<"/", "a", "/", "b">>,
     <<"/", "t">>,
     <<"/", "t", "/">>,
     <<"/", "t", "/", "x">>,
     <<"/", "t", "/", "x", "/">>,
     <<"/", "t", "/", "x", "/", "/">>,
     <<"/", "t", "/", "x", "/", "y">>,
     <<"/", "t", "/", "x", "/", "y", "/">>,
     <<"/", "x">>,
     <<"/", "x", "/">>,
     <<"/", "x", "/", "x">>,
     <<"/", "x", "/", "x", "b">>}

\* Compiling and matching: a fresh Router, strict or not, is given one
\* route, NewRoute(template, strict), under GET and then serves GET requests,
\* which evaluate the route's matcher on the request path.
NextRoute ==
    \E t \in {"main"} :
        \/ pc[t] = "idle" /\ registrations = 0 /\ RestrictCall(t)
        \/ RestrictSet(t)
        \/ \E path \in RouteTemplates :
               /\ pc[t] = "idle"
               /\ registrations = 0
               /\ AddHandlerCall(t, GET, path, NextHandler)
        \/ AddHandlerLock(t)
        \/ AddHandlerNewRoute(t)
        \/ AddHandlerInsert(t)
        \/ AddHandlerUnlock(t)
        \/ \E path \in RoutePaths : ServeHTTPCall(t, GET, path)
        \/ DispatchStep(t)

SpecRoute ==
    Init /\ [][NextRoute]_vars

\* Wildcard templates and the paths they are matched against: paths that
\* begin with the text before the "*" (with an empty remainder, a remainder
\* with a "/", a remainder with a newline, as in the request target
\* "/t/%0A") and paths that do not.
WildTemplates ==
    {<<"/", "t", "/", "*">>,
     <<"/", "*">>}

WildPaths ==
    {<<>>,
     <<"/">>,
     <<"t", "/">>,
     <<"/", "t">>,
     <<"/", "t", "/">>,
     <<"/", "t", "x">>,
     <<"/", "t", "/", "x">>,
     <<"/", "t", "/", "x", "/">>,
     <<"/", "t", "/", "x", "/", "y">>,
     <<"/", "t", "/", "/">>,
     <<"/", "x", "/", "t", "/">>,
     <<"/", "t", "/", "\n">>,
     <<"/", "t", "/", "x", "\n", "y">>}

\* A fresh Router, strict or not, is given one wildcard route under GET and
\* then serves GET requests.
NextWild ==
    \E t \in {"main"} :
        \/ pc[t] = "idle" /\ registrations = 0 /\ RestrictCall(t)
        \/ RestrictSet(t)
        \/ \E path \in WildTemplates :
               /\ pc[t] = "idle"
               /\ registrations = 0
               /\ AddHandlerCall(t, GET, path, NextHandler)
        \/ AddHandlerLock(t)
        \/ AddHandlerNewRoute(t)
        \/ AddHandlerInsert(t)
        \/ AddHandlerUnlock(t)
        \/ \E path \in WildPaths : ServeHTTPCall(t, GET, path)
        \/ DispatchStep(t)

SpecWild ==
    Init /\ [][NextWild]_vars

\* Templates with one required parameter: a default capture, a default
\* capture behind a ".", and custom captures (a digit run, an alternation
\* behind a ".", a class that admits the ".", and a sub-pattern that uses
\* the "." operator); and the values a request path supplies for it.
CaptureTemplates ==
    {<<"/", ":", "n">>,
     <<"/", "f", ".", ":", "e">>,
     <<"/", ":", "n", "(", "\\", "d", "+", ")">>,
     <<"/", "f", ".", ":", "e", "(", "x", "|", "y", ")">>,
     <<"/", "f", ".", ":", "e", "(", "[", "^", "/", "]", "+", ")">>,
     <<"/", ":", "n", "(", "a", ".", "c", ")">>}

CaptureValues ==
    {<<>>,
     <<"x">>,
     <<"y">>,
     <<"7">>,
     <<"4", "2">>,
     <<"x", "y">>,
     <<"x", ".", "y">>,
     <<".">>,
     <<"x", "/", "y">>,
     <<"a", "b", "c">>,
     <<"a", ".", "c">>,
     <<"a", "c">>}

\* The request paths: a value behind "/" or behind "/f.".
CapturePaths ==
    {head \o v : head \in {<<"/">>, <<"/", "f", ".">>}, v \in CaptureValues}

\* A fresh Router, strict or not, is given one of these routes under GET and
\* then serves GET requests.
NextCapture ==
    \E t \in {"main"} :
        \/ pc[t] = "idle" /\ registrations = 0 /\ RestrictCall(t)
        \/ RestrictSet(t)
        \/ \E path \in CaptureTemplates :
               /\ pc[t] = "idle"
               /\ registrations = 0
               /\ AddHandlerCall(t, GET, path, NextHandler)
        \/ AddHandlerLock(t)
        \/ AddHandlerNewRoute(t)
        \/ AddHandlerInsert(t)
        \/ AddHandlerUnlock(t)
        \/ \E path \in CapturePaths : ServeHTTPCall(t, GET, path)
        \/ DispatchStep(t)

SpecCapture ==
    Init /\ [][NextCapture]_vars

\* Templates compiled more than once, and the paths the compiled routes
\* are compared on.
TwiceTemplates ==
    {<<"/", "a">>,
     <<"/", "t", "/", ":", "r">>,
     <<"/", ":", "a", "/", ":", "a", "b", "?">>}

TwicePaths ==
    {<<"/", "a">>,
     <<"/", "a", "/">>,
     <<"/", "t", "/", "x">>,
     <<"/", "t", "/", "x", "/">>,
     <<"/", "x">>,
     <<"/", "x", "/", "x", "b">>}

\* A Router whose strict flag is settled before the first registration is
\* given several routes under GET, the same template more than once among
\* them, and serves GET requests.
NextTwice ==
    \E t \in {"main"} :
        \/ pc[t] = "idle" /\ registrations = 0 /\ RestrictCall(t)
        \/ RestrictSet(t)
        \/ \E path \in TwiceTemplates :
               pc[t] = "idle" /\ AddHandlerCall(t, GET, path, NextHandler)
        \/ AddHandlerLock(t)
        \/ AddHandlerNewRoute(t)
        \/ AddHandlerInsert(t)
        \/ AddHandlerUnlock(t)
        \/ \E path \in TwicePaths : ServeHTTPCall(t, GET, path)
        \/ DispatchStep(t)

SpecTwice ==
    Init /\ [][NextTwice]_vars

\* The same request served twice on one Router state: "main" registers
\* routes under GET while no request is in flight, and both goroutines serve
\* GET requests while no registration is in progress.
SamePaths ==
    {<<"/", "a">>, <<"/", "b">>, <<"/", "a", "/", "b">>}

NextSame ==
    \/ \E t \in {"main"} :
           \/ \E path \in Templates :
                  /\ pc[t] = "idle"
                  /\ \A u \in Procs : req[u] = NoReq
                  /\ AddHandlerCall(t, GET, path, NextHandler)
           \/ AddHandlerLock(t)
           \/ AddHandlerNewRoute(t)
           \/ AddHandlerInsert(t)
           \/ AddHandlerUnlock(t)
    \/ \E t \in Procs :
           \/ \E path \in SamePaths :
                  /\ pc["main"] \notin {"AH_lock", "AH_new", "AH_insert", "AH_unlock"}
                  /\ ServeHTTPCall(t, GET, path)
           \/ DispatchStep(t)

SpecSame ==
    Init /\ [][NextSame]_vars

\* Match beside the strict flag: "main" calls Match once on a fresh Router
\* and then serves requests of every supported method, while "conn" calls
\* RestrictRouteMatching and UnrestrictRouteMatching.
NextFlag ==
    \/ \E t \in {"main"} :
           \/ /\ pc[t] = "idle"
              /\ registrations = 0
              /\ MatchCall(t, TemplateA, NextHandler)
           \/ MatchLoop(t)
           \/ AddHandlerLock(t)
           \/ AddHandlerNewRoute(t)
           \/ AddHandlerInsert(t)
           \/ AddHandlerUnlock(t)
           \/ \E method \in {GET, PATCH} :
                  registrations > 0 /\ ServeHTTPCall(t, method, <<"/", "a", "/">>)
           \/ DispatchStep(t)
    \/ \E t \in {"conn"} :
           \/ pc[t] = "idle" /\ RestrictCall(t)
           \/ pc[t] = "idle" /\ UnrestrictCall(t)
           \/ RestrictSet(t)
           \/ UnrestrictSet(t)

SpecFlag ==
    Init /\ [][NextFlag]_vars

\* Templates of two required parameters: unrelated names, and names of
\* which the second begins with the first; and the paths they are matched
\* against.
PrefixTemplates ==
    {<<"/", ":", "a", "/", ":", "b">>,
     <<"/", ":", "a", "/", ":", "a", "b">>,
     <<"/", ":", "i", "d", "/", ":", "i", "d", "x">>}

PrefixPaths ==
    {<<>>,
     <<"/">>,
     <<"/", "x">>,
     <<"/", "x", "/">>,
     <<"/", "x", "/", "y">>,
     <<"/", "x", "/", "y", "/">>,
     <<"/", "x", "/", "y", "b">>,
     <<"/", "x", "/", "b">>,
     <<"/", "x", "/", "y", "x">>,
     <<"/", "x", "b", "/", "y">>,
     <<"/", "/", "y">>,
     <<"/", "x", "/", "/">>,
     <<"/", "x", "/", "y", "/", "z">>}

\* A fresh Router, strict or not, is given one of these routes under GET and
\* then serves GET requests.
NextPrefix ==
    \E t \in {"main"} :
        \/ pc[t] = "idle" /\ registrations = 0 /\ RestrictCall(t)
        \/ RestrictSet(t)
        \/ \E path \in PrefixTemplates :
               /\ pc[t] = "idle"
               /\ registrations = 0
               /\ AddHandlerCall(t, GET, path, NextHandler)
        \/ AddHandlerLock(t)
        \/ AddHandlerNewRoute(t)
        \/ AddHandlerInsert(t)
        \/ AddHandlerUnlock(t)
        \/ \E path \in PrefixPaths : ServeHTTPCall(t, GET, path)
        \/ DispatchStep(t)

SpecPrefix ==
    Init /\ [][NextPrefix]_vars

\* The caller of an AddHandler that panicked recovers (a deferred recover()
\* in the function that called AddHandler from rest) and goes on.
Recover(t) ==
    /\ pc[t] = "Panicked"
    /\ ret[t] = "idle"
    /\ panicking' = [panicking EXCEPT ![t] = FALSE]
    /\ matchIdx' = [matchIdx EXCEPT ![t] = 0]
    /\ Return(t)
    /\ UNCHANGED <<routerVars, route, srvVars, registrations>>

\* Registration that can fail, under fair scheduling: "main" registers GET
\* routes with a valid and with a malformed template, recovering from the
\* panic of the latter, a middleware and a fallback handler, while "conn"
\* serves requests.
NextRecover ==
    \/ \E t \in {"main"} :
           \/ \E path \in {TemplateA, TemplateBad} :
                  pc[t] = "idle" /\ AddHandlerCall(t, GET, path, NextHandler)
           \/ pc[t] = "idle" /\ middleware = <<>> /\ RegisterMiddlewareCall(t, NextMiddleware)
           \/ pc[t] = "idle" /\ NotFoundCall(t, "nf1")
           \/ AddHandlerLock(t)
           \/ AddHandlerNewRoute(t)
           \/ AddHandlerInsert(t)
           \/ AddHandlerUnlock(t)
           \/ Recover(t)
           \/ NotFoundLock(t)
           \/ NotFoundSet(t)
           \/ NotFoundUnlock(t)
           \/ RegisterMiddlewareLock(t)
           \/ RegisterMiddlewareAppend(t)
           \/ RegisterMiddlewareUnlock(t)
    \/ \E t \in {"conn"} :
           \/ ServeHTTPCall(t, GET, TemplateA)
           \/ \E handled \in BOOLEAN : MiddlewareReturn(t, handled)
           \/ DispatchStep(t)

SpecRecover ==
    Init /\ [][NextRecover]_vars /\ Fairness

(***************************************************************************)
(* Properties                                                              *)
(***************************************************************************)

\* The entries of a method's bucket whose matcher accepts a path; none when
\* the method is not supported.
Accepting(method, path) ==
    IF method \in DOMAIN dispatcher
    THEN {i \in 1..Len(dispatcher[method]) :
              MatchString(dispatcher[method][i].route.matcher, path)}
    ELSE {}

\* The positions of the invocations of one kind in the log of a dispatch.
EventsOf(l, kind) ==
    {k \in 1..Len(l) : l[k].kind = kind}

\* No middleware has returned true in the dispatch.
NoneHandled(l) ==
    \A k \in 1..Len(l) : ~l[k].handled

\* The statements of the route lookup, and the statements after it.
LookupPcs ==
    {"FM_lock", "FM_lookup", "FM_scan", "FM_unlock"}

AfterLookupPcs ==
    {"SH_check", "InHandler", "InFallback"}

\* The statements at which a goroutine waits for the mutex, those it
\* executes holding it, and those that write a field of the Router.
LockPcs ==
    {"AH_lock", "RM_lock", "NF_lock", "FM_lock"}

HoldingPcs ==
    {"AH_new", "AH_insert", "AH_unlock", "RM_append", "RM_unlock",
     "NF_set", "NF_unlock", "FM_lookup", "FM_scan", "FM_unlock"}

WritePcs ==
    {"AH_insert", "RM_append", "NF_set", "RS_set", "US_set"}

\* C1: once a middleware has returned true the dispatch is over: that
\* middleware is the last invocation of the dispatch (no later middleware,
\* no route handler, no fallback), whatever the request.
C1_HandledEndsDispatch ==
    \A t \in Procs : \A k \in 1..Len(log[t]) :
        (log[t][k].kind = "mw" /\ log[t][k].handled) =>
            /\ k = Len(log[t])
            /\ pc[t] = "SH_done"

\* The first of two middleware returned true on a request that a route
\* accepts.
C1_Witness ==
    \E t \in Procs :
        /\ pc[t] = "SH_done"
        /\ Len(middleware) = 2
        /\ Len(log[t]) = 1
        /\ log[t][1].handled
        /\ Accepting(ToUpper(req[t].method), req[t].path) # {}

\* C2: while every middleware returns false, the dispatch invokes the
\* registered middleware one by one in registration order, each once,
\* whatever the request's method; the lookup starts only after the last one,
\* and the dispatch ends with one invocation of a route handler or of the
\* fallback.
C2_ChainInOrder ==
    \A t \in Procs :
        LET l == log[t]
            n == Cardinality(EventsOf(l, "mw"))
        IN  /\ n <= Len(middleware)
            /\ \A k \in 1..n : l[k].kind = "mw" /\ l[k].id = middleware[k]
            /\ pc[t] \in LookupPcs \cup AfterLookupPcs =>
                   n = Len(middleware) /\ NoneHandled(l)
            /\ pc[t] \in LookupPcs => Len(l) = n
            /\ (pc[t] = "SH_done" /\ NoneHandled(l)) =>
                   /\ n = Len(middleware)
                   /\ Len(l) = n + 1
                   /\ l[n + 1].kind \in {"route", "fallback"}

\* Two middleware returned false on a request of an unsupported method, and
\* the fallback was invoked after them.
C2_Witness ==
    \E t \in Procs :
        /\ pc[t] = "SH_done"
        /\ req[t].method = Brew
        /\ Len(middleware) = 2
        /\ Len(log[t]) = 3
        /\ NoneHandled(log[t])
        /\ log[t][3].kind = "fallback"

\* C3: a dispatch invokes at most one route handler, and it is a handler
\* registered under the request's method (upper-cased) with a template that
\* accepts the path; when no middleware handles the request and the method
\* has such a route, exactly one is invoked. So with one template registered
\* under several methods, each with its own handler, a request of method m
\* invokes the handler of m once and no handler of another method.
C3_OwnMethodHandler ==
    \A t \in Procs :
        LET m      == ToUpper(req[t].method)
            acc    == Accepting(m, req[t].path)
            routes == EventsOf(log[t], "route")
        IN  /\ Cardinality(routes) <= 1
            /\ \A k \in routes :
                   /\ log[t][k].method = m
                   /\ log[t][k].idx \in acc
                   /\ log[t][k].id = dispatcher[m][log[t][k].idx].handler
            /\ (pc[t] = "SH_done" /\ NoneHandled(log[t]) /\ acc # {}) =>
                   Cardinality(routes) = 1

\* "/a" is registered under GET with h1 and under PUT with h2, and a PUT
\* request for "/a" has invoked h2.
C3_Witness ==
    \E t \in Procs :
        /\ pc[t] = "SH_done"
        /\ Len(dispatcher[GET]) = 1
        /\ Len(dispatcher[PUT]) = 1
        /\ dispatcher[GET][1].route.path = TemplateA
        /\ dispatcher[PUT][1].route.path = TemplateA
        /\ dispatcher[GET][1].handler = "h1"
        /\ dispatcher[PUT][1].handler = "h2"
        /\ req[t].method = PUT
        /\ Len(log[t]) = 1
        /\ log[t][1].kind = "route"
        /\ log[t][1].id = "h2"

\* C4: when no middleware handles the request and no route of its method
\* accepts the path (or the method is not supported), the dispatch invokes
\* the Router's fallback handler once and no route handler.
C4_FallbackOnMiss ==
    \A t \in Procs :
        LET acc == Accepting(ToUpper(req[t].method), req[t].path)
            l   == log[t]
        IN  (pc[t] = "SH_done" /\ NoneHandled(l) /\ acc = {}) =>
                /\ Cardinality(EventsOf(l, "fallback")) = 1
                /\ EventsOf(l, "route") = {}
                /\ l[Len(l)].kind = "fallback"
                /\ l[Len(l)].id = notFoundHandler

\* The GET bucket has a route, a GET request for a path it does not accept
\* was served, and the registered fallback handler was invoked.
C4_Witness ==
    \E t \in Procs :
        /\ pc[t] = "SH_done"
        /\ req[t].method = GET
        /\ dispatcher[GET] # <<>>
        /\ Accepting(GET, req[t].path) = {}
        /\ Len(log[t]) = 1
        /\ log[t][1].kind = "fallback"
        /\ log[t][1].id = "nf1"

\* The entries of all the buckets.
Registered ==
    UNION {{dispatcher[m][i] : i \in 1..Len(dispatcher[m])} : m \in DOMAIN dispatcher}

\* C5: after Match(path, h) on a fresh Router, a request of any of the nine
\* supported methods for a path the template accepts invokes h once and
\* nothing else: the fallback is not invoked.
C5_MatchServesEveryMethod ==
    \A t \in Procs :
        (/\ pc[t] = "SH_done"
         /\ registrations = 1
         /\ req[t].method \in SeqRange(httpMethods)) =>
            \A e \in Registered :
                MatchString(CompiledSource(e.route.path, FALSE), req[t].path) =>
                    /\ Len(log[t]) = 1
                    /\ log[t][1].kind = "route"
                    /\ log[t][1].id = e.handler

\* After Match, a PATCH request (the last of the nine methods) has invoked
\* the handler.
C5_Witness ==
    \E t \in Procs :
        /\ pc[t] = "SH_done"
        /\ registrations = 1
        /\ req[t].method = PATCH
        /\ Len(log[t]) = 1
        /\ log[t][1].kind = "route"
        /\ log[t][1].id = Handlers[1]

\* C6, as stated: when several routes of the request's method accept the
\* path, the handler invoked is that of the one registered first.
C6_FirstRegisteredWins ==
    \A t \in Procs : \A k \in EventsOf(log[t], "route") :
        \A i \in Accepting(ToUpper(req[t].method), req[t].path) : log[t][k].idx <= i

\* C6, amended: the lookup returns one of the routes of the request's method
\* that accept the path, not necessarily the one registered first (nil when
\* there is none), and the dispatch invokes the handler of that route.
C6_SomeAcceptingRouteWins ==
    \A t \in Procs :
        LET m   == ToUpper(req[t].method)
            acc == Accepting(m, req[t].path)
        IN  pc[t] \in AfterLookupPcs =>
                /\ IF acc = {}
                   THEN found[t] = NilPair
                   ELSE /\ found[t].idx \in acc
                        /\ found[t].route = dispatcher[m][found[t].idx].route
                        /\ found[t].handler = dispatcher[m][found[t].idx].handler
                /\ pc[t] = "InHandler" =>
                       /\ acc # {}
                       /\ log[t][Len(log[t])].id = found[t].handler
                /\ pc[t] = "InFallback" => acc = {}

\* Two routes of the bucket accept the path, and the handler of the one
\* registered second is running.
C6_Witness ==
    \E t \in Procs :
        /\ pc[t] = "InHandler"
        /\ Cardinality(Accepting(ToUpper(req[t].method), req[t].path)) = 2
        /\ found[t].idx = 2
        /\ log[t][Len(log[t])].id = dispatcher[ToUpper(req[t].method)][2].handler

\* C7, as stated: a goroutine that is about to write the route table, the
\* middleware list, the fallback handler or the strict flag holds the mutex.
C7_MutationsUnderMutex ==
    \A t \in Procs : pc[t] \in WritePcs => mutex = t

\* C8: a goroutine holds the mutex only inside a registration method or the
\* lookup: never while a middleware, a route handler or the fallback handler
\* runs, and never while it waits for the mutex, so that a registration
\* called from inside a handler or a middleware finds the mutex not held by
\* its own dispatch.
C8_NoMutexAcrossInvocation ==
    \A t \in Procs :
        /\ pc[t] \in InvokingPcs => mutex # t
        /\ (pc[t] \in LockPcs /\ ret[t] \in InvokingPcs) => mutex # t
        /\ mutex = t => pc[t] \in HoldingPcs

\* A route handler has called AddHandler, which holds the mutex and is about
\* to insert the route.
C8_Witness ==
    \E t \in Procs :
        /\ ret[t] = "InHandler"
        /\ pc[t] = "AH_insert"
        /\ mutex = t

C10_StrictFixedAtRegistration ==
    [][\A m \in DOMAIN dispatcher :
           /\ Len(dispatcher'[m]) >= Len(dispatcher[m])
           /\ \A k \in 1..Len(dispatcher[m]) : dispatcher'[m][k] = dispatcher[m][k]
           /\ \A k \in (Len(dispatcher[m]) + 1)..Len(dispatcher'[m]) :
                  dispatcher'[m][k].route.matcher =
                      CompiledSource(dispatcher'[m][k].route.path, strict)]_vars

\* A route registered before RestrictRouteMatching has accepted a path with
\* a trailing slash while the Router is strict.
C10_Witness ==
    \E t \in Procs :
        /\ pc[t] = "InHandler"
        /\ strict
        /\ req[t].path = <<"/", "a", "/">>
        /\ found[t].route = NewRoute(TemplateA, FALSE)

\* The statements of AddHandler.
AddHandlerPcs ==
    {"AH_lock", "AH_new", "AH_insert", "AH_unlock"}

\* C11: an AddHandler call whose method is no key of the dispatcher changes
\* nothing and returns normally, whatever the template: none of its steps
\* changes a bucket, the middleware list, the fallback handler or the strict
\* flag, it never builds or inserts a Route, it does not panic, and it leaves
\* AddHandler by returning to its caller.
C11_UnsupportedMethodIgnored ==
    [][\A t \in Procs :
           (/\ pc[t] \in AddHandlerPcs
            /\ call[t].method \notin DOMAIN dispatcher
            /\ pc'[t] # pc[t])
           => /\ dispatcher' = dispatcher
              /\ middleware' = middleware
              /\ notFoundHandler' = notFoundHandler
              /\ strict' = strict
              /\ ~panicking'[t]
              /\ route'[t] = NilRoute
              /\ pc'[t] \in {"AH_new", "AH_unlock", ret[t]}]_vars

\* AddHandler("get", "/:x(+)", h) is at its return without a panic, on a
\* Router that holds a GET route.
C11_Witness ==
    /\ pc["main"] = "AH_unlock"
    /\ call["main"].method = LowerGet
    /\ call["main"].path = TemplateBad
    /\ ~panicking["main"]
    /\ Len(dispatcher[GET]) = 1

\* A template has a custom capture that regexp.Compile rejects when it is
\* given alone.
InvalidCapture(path) ==
    LET parameters == splitRoutePathParams(path)
    IN  \E k \in 1..Len(parameters) :
            LET capture == generateFragmentedPathParameter(parameters[k]).capture
            IN  Len(capture) > 0 /\ ~Compile(capture).ok

\* C12, as stated: a template with a custom capture that is not valid matcher
\* syntax is never registered: AddHandler does not reach its insertion with
\* such a template and no bucket holds a route of such a template.
C12_MalformedCaptureNeverRegistered ==
    /\ \A t \in Procs : pc[t] = "AH_insert" => ~InvalidCapture(call[t].path)
    /\ \A m \in DOMAIN dispatcher : \A k \in 1..Len(dispatcher[m]) :
           ~InvalidCapture(dispatcher[m][k].route.path)

\* C13: a request whose method is a supported method name in another letter
\* case is served as the upper-case spelling is: when a route registered
\* under the upper-case method accepts the path, the handler of such a route
\* is the only one invoked, and otherwise the fallback handler is.
C13_MethodCaseInsensitive ==
    \A t \in Procs :
        LET m   == ToUpper(req[t].method)
            acc == Accepting(m, req[t].path)
            l   == log[t]
        IN  (/\ pc[t] = "SH_done"
             /\ req[t].method # m
             /\ m \in SeqRange(httpMethods)
             /\ NoneHandled(l)) =>
                /\ Len(l) = 1
                /\ IF acc # {}
                   THEN /\ l[1].kind = "route"
                        /\ l[1].method = m
                        /\ l[1].idx \in acc
                        /\ l[1].id = dispatcher[m][l[1].idx].handler
                   ELSE /\ l[1].kind = "fallback"
                        /\ l[1].id = notFoundHandler

\* "/a" is registered under PUT with h1 and under GET with h2, and a "get"
\* request for "/a" has invoked h2.
C13_Witness ==
    \E t \in Procs :
        /\ pc[t] = "SH_done"
        /\ req[t].method = LowerGet
        /\ req[t].path = TemplateA
        /\ Len(dispatcher[PUT]) = 1
        /\ dispatcher[PUT][1].handler = "h1"
        /\ Len(dispatcher[GET]) = 1
        /\ dispatcher[GET][1].handler = "h2"
        /\ Len(log[t]) = 1
        /\ log[t][1].kind = "route"
        /\ log[t][1].id = "h2"

\* The statements of NotFound and of RegisterMiddleware.
NotFoundPcs ==
    {"NF_lock", "NF_set", "NF_unlock"}

RegisterMiddlewarePcs ==
    {"RM_lock", "RM_append", "RM_unlock"}

\* C14: the fallback handler is the default one of NewRouter until a
\* NotFound call replaces it; NotFound(h) returns with h as the fallback
\* handler, nothing but the assignment in NotFound changes it afterwards, and
\* a dispatch that ends unmatched invokes the fallback handler the Router
\* has at that moment, once; no step of NotFound changes a bucket or the
\* middleware list.
C14_FallbackAfterNotFound ==
    /\ notFoundHandler = DefaultNotFound
    /\ [][/\ notFoundHandler' # notFoundHandler =>
                 \E t \in Procs : pc[t] = "NF_set" /\ notFoundHandler' = call[t].handler
          /\ \A t \in Procs :
                 /\ (pc[t] = "NF_unlock" /\ pc'[t] # pc[t]) =>
                        /\ notFoundHandler = call[t].handler
                        /\ notFoundHandler' = call[t].handler
                        /\ pc'[t] = ret[t]
                 /\ (pc[t] \in NotFoundPcs /\ pc'[t] # pc[t]) =>
                        /\ dispatcher' = dispatcher
                        /\ middleware' = middleware
                 /\ pc'[t] = "InFallback" =>
                        /\ Cardinality(EventsOf(log'[t], "fallback")) = 1
                        /\ EventsOf(log'[t], "route") = {}
                        /\ log'[t][Len(log'[t])].kind = "fallback"
                        /\ log'[t][Len(log'[t])].id = notFoundHandler]_vars

\* After NotFound was called with two handlers, the second is the fallback
\* handler and runs for a request that the Router's GET route does not
\* accept.
C14_Witness ==
    \E t \in Procs :
        /\ pc[t] = "InFallback"
        /\ notFoundHandler = "nf2"
        /\ log[t][Len(log[t])].id = "nf2"
        /\ dispatcher[GET] # <<>>
        /\ middleware # <<>>

\* C15: RegisterMiddleware appends its argument to the chain whatever the
\* chain holds, and no step removes or moves a registered middleware; a
\* dispatch in which no middleware returns true invokes the chain entry by
\* entry, so a middleware that is in the chain k times is invoked k times,
\* at its positions.
C15_NoDeduplication ==
    /\ [](\A t \in Procs :
              (pc[t] \in LookupPcs \cup AfterLookupPcs \cup {"SH_done"} /\ NoneHandled(log[t])) =>
                  /\ Len(log[t]) >= Len(middleware)
                  /\ \A k \in 1..Len(middleware) :
                         log[t][k].kind = "mw" /\ log[t][k].id = middleware[k]
                  /\ \A mw \in SetupMiddlewares :
                         Cardinality({k \in EventsOf(log[t], "mw") : log[t][k].id = mw})
                             = Cardinality({k \in 1..Len(middleware) : middleware[k] = mw}))
    /\ [][/\ Len(middleware') >= Len(middleware)
          /\ SubSeq(middleware', 1, Len(middleware)) = middleware
          /\ \A t \in Procs :
                 (pc[t] = "RM_append" /\ pc'[t] # pc[t]) =>
                     middleware' = Append(middleware, call[t].handler)]_vars

\* The same middleware was registered twice and a dispatch has invoked it
\* twice before the fallback handler.
C15_Witness ==
    \E t \in Procs :
        /\ pc[t] = "SH_done"
        /\ middleware = <<"mwA", "mwA">>
        /\ Len(log[t]) = 3
        /\ log[t][1].id = "mwA"
        /\ log[t][2].id = "mwA"
        /\ NoneHandled(log[t])

\* C16: under fair scheduling a goroutine that waits at a Lock gets the
\* mutex, every registration call that was entered returns to its caller,
\* and every dispatch that was started returns, whatever the other goroutine
\* does meanwhile.
C16_NoStarvation ==
    \A t \in Procs :
        /\ (pc[t] \in LockPcs) ~> (mutex = t)
        /\ (pc[t] \in AddHandlerPcs \cup NotFoundPcs \cup RegisterMiddlewarePcs)
               ~> (pc[t] \in {"idle"} \cup InvokingPcs)
        /\ (req[t] # NoReq) ~> (req[t] = NoReq)

\* A dispatch waits for the mutex while the other goroutine is inside
\* AddHandler holding it.
C16_Witness ==
    /\ pc["conn"] = "FM_lock"
    /\ pc["main"] = "AH_insert"
    /\ mutex = "main"

\* The path a template stands for when the parameters whose indices are in
\* supplied are given the value "x" (after the fragment's "/" and ".") and
\* the other parameters are left out: "/t/:r/:o?" with {1} is "/t/x".
RECURSIVE InstFrom(_, _, _, _)
InstFrom(s, i, k, supplied) ==
    IF i > Len(s) THEN <<>>
    ELSE LET m == MatchParamAt(s, i)
         IN  IF m.ok
             THEN (IF k \in supplied
                   THEN m.parameter[2] \o m.parameter[3] \o <<"x">>
                   ELSE <<>>) \o InstFrom(s, m.end, k + 1, supplied)
             ELSE <<s[i]>> \o InstFrom(s, i + 1, k, supplied)

PathFor(template, supplied) ==
    InstFrom(template, 1, 1, supplied)

\* The indices of the required parameters of a template.
RequiredParams(template) ==
    LET parameters == splitRoutePathParams(template)
    IN  {k \in 1..Len(parameters) :
             Len(generateFragmentedPathParameter(parameters[k]).optional) = 0}

\* C17, as stated: the matcher of a registered route does not accept the
\* path that lacks the segment of one required parameter (the other required
\* parameters supplied), and when the last parameter is optional it accepts
\* the path with every parameter supplied and the path without the last one.
C17_RequiredAndOptionalSegments ==
    \A e \in Registered :
        LET template == e.route.path
            n        == Len(splitRoutePathParams(template))
            required == RequiredParams(template)
        IN  /\ \A k \in required :
                   ~MatchString(e.route.matcher, PathFor(template, required \ {k}))
            /\ (n > 0 /\ n \notin required) =>
                   /\ MatchString(e.route.matcher, PathFor(template, 1..n))
                   /\ MatchString(e.route.matcher, PathFor(template, 1..(n - 1)))

\* A registered route was compiled with strict = true.
RouteStrict(e) ==
    e.route.matcher = CompiledSource(e.route.path, TRUE)

NoTrailingSlash(p) ==
    Len(p) = 0 \/ p[Len(p)] # "/"

\* A template of literal text (letters, digits, "_", "-", "/" and ".") and
\* parameter fragments ":name" and ":name?" without a custom capture.
PlainTemplate(template) ==
    LET parameters == splitRoutePathParams(template)
    IN  /\ \A k \in 1..Len(parameters) :
               Len(generateFragmentedPathParameter(parameters[k]).capture) = 0
        /\ SeqRange(PathFor(template, {})) \subseteq WordChars \cup {"/", ".", "-"}

ParamNames(template) ==
    LET parameters == splitRoutePathParams(template)
    IN  [k \in 1..Len(parameters) |-> generateFragmentedPathParameter(parameters[k]).name]

\* C19, as stated: the keys of a registered route are the parameter names of
\* its template in order of appearance, and there are as many keys as the
\* template has distinct parameter names.
C19_KeysAreDistinctNames ==
    \A e \in Registered :
        LET names == ParamNames(e.route.path)
        IN  /\ \A k \in 1..Len(e.route.keys) : e.route.keys[k] \in SeqRange(names)
            /\ \A j, k \in 1..Len(e.route.keys) :
                   j < k => \E a, b \in 1..Len(names) :
                                a < b /\ names[a] = e.route.keys[j] /\ names[b] = e.route.keys[k]
            /\ Len(e.route.keys) = Cardinality(SeqRange(names))

\* A template without a parameter fragment, without "*" and without "/(".
LiteralTemplate(template) ==
    /\ splitRoutePathParams(template) = <<>>
    /\ "*" \notin SeqRange(template)
    /\ \A i \in 1..(Len(template) - 1) : ~(template[i] = "/" /\ template[i + 1] = "(")

\* C20, as stated: the matcher of a route with a literal template accepts
\* the template itself, the template followed by one "/" when it was
\* compiled with strict = false, and no other path.
C20_LiteralTemplateExactMatch ==
    \A e \in Registered :
        LET template == e.route.path
        IN  LiteralTemplate(template) =>
                \A p \in RoutePaths \cup {template, template \o <<"/">>, template \o <<"/", "/">>,
                                          <<"/">> \o template, template \o <<"a">>} :
                    MatchString(e.route.matcher, p) <=>
                        \/ p = template
                        \/ ~RouteStrict(e) /\ p = template \o <<"/">>

\* s begins with prefix.
HasPrefix(s, prefix) ==
    HasPrefixAt(s, 1, prefix)

\* The text of a template before its final "*".
BeforeWildcard(template) ==
    SubSeq(template, 1, Len(template) - 1)

\* C21: the route of a template that ends in a bare "*" accepts a path
\* exactly when the path begins with the text before the "*", whatever the
\* remainder is (empty, with a "/", with any other character).
C21_WildcardAcceptsAnyRemainder ==
    \A e \in Registered :
        (Len(e.route.path) > 0 /\ e.route.path[Len(e.route.path)] = "*") =>
            \A p \in WildPaths :
                MatchString(e.route.matcher, p) <=> HasPrefix(p, BeforeWildcard(e.route.path))

\* The text of a template before the ":" of its first parameter.
BeforeParam(template) ==
    LET k == CHOOSE i \in 1..Len(template) :
                 template[i] = ":" /\ \A j \in 1..(i - 1) : template[j] # ":"
    IN  SubSeq(template, 1, k - 1)

\* The rule of C22 for the value v of the one parameter of a template: the
\* custom sub-pattern as it is written in the template, or a non-empty run
\* without "/" (and without "." behind a ".").
ValueAccepted(template, v) ==
    LET fragmented == generateFragmentedPathParameter(splitRoutePathParams(template)[1])
    IN  IF Len(fragmented.capture) > 0
        THEN MatchString(<<"^">> \o fragmented.capture \o <<"$">>, v)
        ELSE /\ Len(v) > 0
             /\ "/" \notin SeqRange(v)
             /\ Len(fragmented.format) > 0 => "." \notin SeqRange(v)

\* C22: a registered route whose template ends in one required parameter
\* accepts the text before the parameter followed by a value exactly when
\* the rule admits the value (values that end in "/" are left to the
\* trailing-slash rule).
C22_ParameterValueRule ==
    \A e \in Registered :
        LET template == e.route.path
        IN  Len(splitRoutePathParams(template)) = 1 =>
                \A v \in CaptureValues :
                    NoTrailingSlash(v) =>
                        (MatchString(e.route.matcher, BeforeParam(template) \o v)
                             <=> ValueAccepted(template, v))

ReadsMiddleware(t) ==
    pc[t] = "SH_range"

ReadsBucket(t) ==
    pc[t] \in {"FM_lookup", "FM_scan"}

ReadsFallback(t) ==
    /\ pc[t] = "SH_check"
    /\ (found[t].route = NilRoute \/ found[t].handler = NilHandler)

\* C24, as stated: a dispatch holds the mutex at every read of the Router's
\* state, and no dispatch reads the middleware list or the fallback handler
\* while another goroutine is at the statement that writes it.
C24_DispatchReadsUnderMutex ==
    /\ \A t \in Procs :
           (ReadsMiddleware(t) \/ ReadsBucket(t) \/ ReadsFallback(t)) => mutex = t
    /\ \A t, u \in Procs :
           /\ ~(ReadsMiddleware(t) /\ pc[u] = "RM_append")
           /\ ~(ReadsFallback(t) /\ pc[u] = "NF_set")

\* The route handler or the fallback handler of a dispatch is running.
Responding(t) ==
    pc[t] \in {"InHandler", "InFallback"}

\* C25, as stated: two dispatches of the same request on the same Router
\* state invoke the same handler.
C25_SameRequestSameHandler ==
    \A t, u \in Procs :
        (Responding(t) /\ Responding(u) /\ req[t] = req[u]) =>
            log[t][Len(log[t])].id = log[u][Len(log[u])].id

\* C25, amended: they do when at most one route of the request's method
\* accepts the path.
C25_SameHandlerUnlessOverlap ==
    \A t, u \in Procs :
        (/\ Responding(t)
         /\ Responding(u)
         /\ req[t] = req[u]
         /\ Cardinality(Accepting(ToUpper(req[t].method), req[t].path)) <= 1) =>
            /\ log[t][Len(log[t])].id = log[u][Len(log[u])].id
            /\ log[t][Len(log[t])].kind = log[u][Len(log[u])].kind

\* With "/a" and "/:x" registered, both goroutines serve GET /b, which only
\* "/:x" accepts, and the handler of that route is running in both.
C25_Witness ==
    /\ Len(dispatcher[GET]) = 2
    /\ dispatcher[GET][1].route.path # dispatcher[GET][2].route.path
    /\ \A t \in Procs :
           /\ pc[t] = "InHandler"
           /\ req[t].path = <<"/", "b">>
           /\ Cardinality(Accepting(GET, req[t].path)) = 1

\* C26: once Match has returned, the routes it inserted under the nine
\* methods accept the same paths.
C26_MatchRoutesAgree ==
    (pc["main"] = "idle" /\ registrations = 1) =>
        \A m1, m2 \in SeqRange(httpMethods) : \A p \in ReqPaths :
            /\ Len(dispatcher[m1]) = 1
            /\ MatchString(dispatcher[m1][1].route.matcher, p)
                   <=> MatchString(dispatcher[m2][1].route.matcher, p)

\* The invocations of a dispatch that answer the request: a middleware that
\* returned true, a route handler, the fallback handler.
Terminal(l) ==
    {k \in 1..Len(l) : l[k].kind \in {"route", "fallback"} \/ (l[k].kind = "mw" /\ l[k].handled)}

\* C27: a dispatch has at no time made two such invocations, and a dispatch
\* that is about to return has made exactly one, which is its last
\* invocation; every invocation before it is a middleware that returned
\* false.
C27_OneTerminalResponder ==
    \A t \in Procs :
        /\ Cardinality(Terminal(log[t])) <= 1
        /\ pc[t] = "SH_done" =>
               /\ Terminal(log[t]) = {Len(log[t])}
               /\ \A k \in 1..(Len(log[t]) - 1) : log[t][k].kind = "mw"

\* The bucket holds the same template twice, both routes accept the path,
\* and the dispatch, after a middleware that returned false, has invoked the
\* handler of one of them and is about to return.
C27_Witness ==
    \E t \in Procs :
        /\ pc[t] = "SH_done"
        /\ Len(dispatcher[GET]) = 2
        /\ dispatcher[GET][1].route = dispatcher[GET][2].route
        /\ Cardinality(Accepting(ToUpper(req[t].method), req[t].path)) = 2
        /\ Len(log[t]) = 2
        /\ log[t][1].kind = "mw"
        /\ log[t][2].kind = "route"

\* The positions of "/" in a path.
Slashes(p) ==
    {i \in 1..Len(p) : p[i] = "/"}

\* A path that supplies two non-empty values without "/": "/" value "/"
\* value.
TwoValues(p) ==
    /\ Cardinality(Slashes(p)) = 2
    /\ 1 \in Slashes(p)
    /\ 2 \notin Slashes(p)
    /\ Len(p) \notin Slashes(p)

\* C28: a route whose template has two required parameters accepts exactly
\* the paths that supply two values (followed by one "/" at most when it was
\* compiled with strict = false), whatever the names of the parameters are.
C28_PrefixNamesIndependent ==
    \A e \in Registered :
        (/\ Len(splitRoutePathParams(e.route.path)) = 2
         /\ RequiredParams(e.route.path) = {1, 2}) =>
            \A p \in PrefixPaths :
                MatchString(e.route.matcher, p) <=>
                    \/ TwoValues(p)
                    \/ /\ ~RouteStrict(e)
                       /\ Len(p) > 0
                       /\ p[Len(p)] = "/"
                       /\ TwoValues(SubSeq(p, 1, Len(p) - 1))

\* Bucket after holds the entries of bucket before, in their places.
Extends(after, before) ==
    /\ Len(after) >= Len(before)
    /\ SubSeq(after, 1, Len(before)) = before

\* C29: the keys of the dispatcher are the nine supported methods in every
\* state; no step removes or replaces an entry of a bucket; an AddHandler
\* for a supported method and a template that compiles goes on to its
\* insertion, and the insertion adds one entry, the Route just built with
\* the handler passed, to the bucket of its method and leaves the other
\* buckets as they are; no other step changes a bucket.
C29_RegistrationOnlyAdds ==
    /\ [](DOMAIN dispatcher = SeqRange(httpMethods) /\ Len(httpMethods) = 9)
    /\ [][/\ \A m \in DOMAIN dispatcher : Extends(dispatcher'[m], dispatcher[m])
          /\ \A t \in Procs :
                 /\ (/\ pc[t] = "AH_new"
                     /\ pc'[t] # pc[t]
                     /\ call[t].method \in DOMAIN dispatcher
                     /\ ~NewRoutePanics(call[t].path, strict))
                    => pc'[t] = "AH_insert"
                 /\ (pc[t] = "AH_insert" /\ pc'[t] # pc[t])
                    => /\ dispatcher'[call[t].method] =
                              Append(dispatcher[call[t].method],
                                     [route |-> route[t], handler |-> call[t].handler])
                       /\ \A m \in DOMAIN dispatcher \ {call[t].method} :
                              dispatcher'[m] = dispatcher[m]
          /\ (\A t \in Procs : ~(pc[t] = "AH_insert" /\ pc'[t] # pc[t]))
                 => dispatcher' = dispatcher]_vars

\* The GET bucket holds the route of "/a" twice, with the handlers of the
\* two registrations.
C29_Witness ==
    /\ Len(dispatcher[GET]) = 2
    /\ dispatcher[GET][1].route = dispatcher[GET][2].route
    /\ dispatcher[GET][1].route.path = TemplateA
    /\ dispatcher[GET][1].handler # dispatcher[GET][2].handler
    /\ \A t \in Procs : pc[t] = "idle"

\* An AddHandler call of "main" has panicked and its caller has recovered:
\* fewer GET routes are registered or being registered than AddHandler was
\* called for (every call is for GET here).
RecoveredBefore ==
    Len(dispatcher[GET]) + (IF pc["main"] \in AddHandlerPcs \cup {"Panicked"} THEN 1 ELSE 0)
        < registrations

\* C30: a goroutine whose AddHandler panicked does not hold the mutex when
\* the panic has left AddHandler; and once a caller has recovered from such
\* a panic, under fair scheduling, every goroutine that waits at a Lock gets
\* the mutex, every registration call returns (or panics in its turn) and
\* every dispatch returns.
C30_MutexReleasedOnPanic ==
    /\ [](\A t \in Procs : pc[t] = "Panicked" => mutex # t)
    /\ \A t \in Procs :
           /\ (RecoveredBefore /\ pc[t] \in LockPcs) ~> (mutex = t)
           /\ (RecoveredBefore /\ pc[t] \in AddHandlerPcs \cup NotFoundPcs \cup RegisterMiddlewarePcs)
                  ~> (pc[t] \in {"idle", "Panicked"})
           /\ (RecoveredBefore /\ req[t] # NoReq) ~> (req[t] = NoReq)

\* After a recovered panic, a later AddHandler call holds the mutex and a
\* dispatch waits for it.
C30_Witness ==
    /\ RecoveredBefore
    /\ pc["main"] = "AH_insert"
    /\ mutex = "main"
    /\ pc["conn"] = "FM_lock"

====
